---------------------------- MODULE Spec2Model ----------------------------
(***************************************************************************)
(* Model of the NESMA SLA dashboard sync scripts:                          *)
(*   sync_smartsheet.py       calculate_sla_kpis, calculate_payments_kpis  *)
(*   sync_sla.py              calculate_sla_metrics                        *)
(*   sync_smartsheet_data.py  calculate_statistics                         *)
(*   sync_logistics.py        prepare_transportation_data,                 *)
(*                            prepare_payments_data                        *)
(*   all but the third, and api/smartsheet.py: process_sheet and the value *)
(*   normalizers parse_cost, parse_days, safe_float                        *)
(*   the entry points: main of each script, do_GET of api/smartsheet.py,   *)
(*   from the fetch of the sheet to the files written, the statuses sent   *)
(*   and the value returned                                                *)
(*                                                                         *)
(* Python values are modelled as tagged records:                           *)
(*   None          [t |-> "none"]                                          *)
(*   int / float   [t |-> "num", m |-> n] for an integer below 2^30, else  *)
(*                 [t |-> "num", neg, b, x]: the IEEE 754 double           *)
(*                 (-1)^neg * b * 2^x, so that sums round as they do in    *)
(*                 CPython                                                 *)
(*   str           [t |-> "str", s |-> sequence of one-character strings]  *)
(*   bool          [t |-> "bool", b |-> BOOLEAN]                           *)
(*   a long int    [t |-> "int", neg, b, x]: (-1)^neg * b * 2^x            *)
(* A value [t |-> "raise", e |-> name] stands for an exception raised.     *)
(* A dict is a function from the keys it holds to values; a missing key is *)
(* a key outside its DOMAIN.                                               *)
(***************************************************************************)
EXTENDS Integers, Sequences, FiniteSets, TLC

VARIABLES
    prog,     \* what runs: the script "kpis", "sla" or "pr", the scripts
              \* from the sheet on ("sheet"), or the normalizers ("norm")
    scen,     \* the input scenario the record list is drawn from; of
              \* "sheet", the script whose process_sheet runs
    pc,       \* the position in the entry point: "start" before the
              \* fetch, "input" while the input is drawn, then the stage
              \* that has run
    added,    \* the number of records appended to the scenario's base list
    records,  \* the record list (orders / records / all_prs); of "pr"
              \* before the fetch, the list the fetch is going to return
    input,    \* the record list as it was passed to the aggregation; of
              \* "sheet" the sheet, of "norm" the cell value
    calc,     \* the local variables of the aggregations that have run
    report,   \* the dicts the aggregations have returned
    files,    \* the output files the run has opened for writing, each
              \* "complete" or "partial"
    sent,     \* the response statuses the HTTP handler has sent, in order
    outcome   \* what the entry point returned, or the exception it let out

vars == <<prog, scen, pc, added, records, input, calc, report, files, sent, outcome>>

(* what a run leaves outside the process *)
outputs == <<files, sent, outcome>>

-----------------------------------------------------------------------------
(* Python values *)

None == [t |-> "none"]

Str(s) == [t |-> "str", s |-> s]

Bool(b) == [t |-> "bool", b |-> b]

MaxOf(a, b) == IF a >= b THEN a ELSE b

MinOf(a, b) == IF a <= b THEN a ELSE b

Abs(n) == IF n < 0 THEN 0 - n ELSE n

RECURSIVE Pow10(_)
Pow10(k) == IF k <= 0 THEN 1 ELSE 10 * Pow10(k - 1)

RECURSIVE Pow2(_)
Pow2(k) == IF k <= 0 THEN 1 ELSE 2 * Pow2(k - 1)

(***************************************************************************)
(* Natural numbers of any size, for the 53-bit significands of floats: a   *)
(* sequence of limbs base 2^15, least significant first, without a zero    *)
(* limb at the top; <<>> is 0.                                             *)
(***************************************************************************)
Limb == Pow2(15)

RECURSIVE BigOfInt(_)
BigOfInt(n) == IF n = 0 THEN <<>> ELSE <<n % Limb>> \o BigOfInt(n \div Limb)

RECURSIVE IntOfBig(_)
IntOfBig(a) == IF a = <<>> THEN 0 ELSE a[1] + Limb * IntOfBig(Tail(a))

RECURSIVE BigTrim(_)
BigTrim(a) ==
    IF a /= <<>> /\ a[Len(a)] = 0 THEN BigTrim(SubSeq(a, 1, Len(a) - 1)) ELSE a

LimbAt(a, i) == IF i <= Len(a) THEN a[i] ELSE 0

RECURSIVE BigAddFrom(_, _, _, _)
BigAddFrom(a, b, i, carry) ==
    IF i > Len(a) /\ i > Len(b) THEN (IF carry = 0 THEN <<>> ELSE <<carry>>)
    ELSE <<(LimbAt(a, i) + LimbAt(b, i) + carry) % Limb>>
             \o BigAddFrom(a, b, i + 1, (LimbAt(a, i) + LimbAt(b, i) + carry) \div Limb)

BigAdd(a, b) == BigAddFrom(a, b, 1, 0)

(* a - b for a >= b *)
RECURSIVE BigSubFrom(_, _, _, _)
BigSubFrom(a, b, i, borrow) ==
    IF i > Len(a) THEN <<>>
    ELSE <<(LimbAt(a, i) - LimbAt(b, i) - borrow + Limb) % Limb>>
             \o BigSubFrom(a, b, i + 1,
                           IF LimbAt(a, i) - LimbAt(b, i) - borrow < 0 THEN 1 ELSE 0)

BigSub(a, b) == BigTrim(BigSubFrom(a, b, 1, 0))

RECURSIVE BigLtFrom(_, _, _)
BigLtFrom(a, b, i) ==
    IF i = 0 THEN FALSE
    ELSE IF a[i] /= b[i] THEN a[i] < b[i] ELSE BigLtFrom(a, b, i - 1)

BigLt(a, b) == IF Len(a) /= Len(b) THEN Len(a) < Len(b) ELSE BigLtFrom(a, b, Len(a))

(* a * k for 0 < k <= 2^15 *)
RECURSIVE BigMulFrom(_, _, _, _)
BigMulFrom(a, k, i, carry) ==
    IF i > Len(a) THEN (IF carry = 0 THEN <<>> ELSE <<carry>>)
    ELSE <<(a[i] * k + carry) % Limb>>
             \o BigMulFrom(a, k, i + 1, (a[i] * k + carry) \div Limb)

BigMulSmall(a, k) == BigMulFrom(a, k, 1, 0)

(* quotient and remainder of a / k for 0 < k <= 2^15 *)
BigDivStep(hi, limb, k) ==
    [q |-> <<(hi.r * Limb + limb) \div k>> \o hi.q, r |-> (hi.r * Limb + limb) % k]

RECURSIVE BigDivRaw(_, _)
BigDivRaw(a, k) ==
    IF a = <<>> THEN [q |-> <<>>, r |-> 0]
    ELSE BigDivStep(BigDivRaw(Tail(a), k), a[1], k)

BigDivTrim(d) == [q |-> BigTrim(d.q), r |-> d.r]

BigDivSmall(a, k) == BigDivTrim(BigDivRaw(a, k))

Zeros(n) == [i \in 1..n |-> 0]

(* a * 2^bits and a \div 2^bits *)
BigShl(a, bits) ==
    IF a = <<>> THEN <<>> ELSE Zeros(bits \div 15) \o BigMulSmall(a, Pow2(bits % 15))

BigShr(a, bits) ==
    BigDivSmall(SubSeq(a, (bits \div 15) + 1, Len(a)), Pow2(bits % 15)).q

RECURSIVE BitLen(_)
BitLen(n) == IF n = 0 THEN 0 ELSE 1 + BitLen(n \div 2)

BigBitLen(a) == IF a = <<>> THEN 0 ELSE 15 * (Len(a) - 1) + BitLen(a[Len(a)])

(* the number of zero bits below the lowest one bit, of a number > 0 *)
RECURSIVE LowZeros(_)
LowZeros(n) == IF n % 2 = 1 THEN 0 ELSE 1 + LowZeros(n \div 2)

RECURSIVE BigLowZeros(_)
BigLowZeros(a) == IF a[1] = 0 THEN 15 + BigLowZeros(Tail(a)) ELSE LowZeros(a[1])

BigIsOdd(a) == a /= <<>> /\ a[1] % 2 = 1

(* t holds one bit more than the result: round to nearest, ties to even;   *)
(* exact says that nothing but that bit was cut off                        *)
RoundOf(t, exact) ==
    IF BigIsOdd(t) /\ (~exact \/ BigIsOdd(BigShr(t, 1)))
    THEN BigAdd(BigShr(t, 1), <<1>>) ELSE BigShr(t, 1)

RoundCut(M, t, sh, sticky) == RoundOf(t, ~sticky /\ BigShl(t, sh - 1) = M)

(* M / 2^sh rounded, sh >= 1; sticky: M itself was cut off above a rest *)
RoundShift(M, sh, sticky) == RoundCut(M, BigShr(M, sh - 1), sh, sticky)

(***************************************************************************)
(* A Python number.  An integer below 2^30 in magnitude, int or float, is  *)
(* [t |-> "num", m |-> n]; every other float is the IEEE 754 double        *)
(* (-1)^neg * b * 2^x with an odd significand b of at most 53 bits.        *)
(* Arithmetic rounds as the hardware does, to nearest with ties to even;   *)
(* infinities, nan, the sign of zero and subnormals are not modelled.      *)
(***************************************************************************)
Num(n) == [t |-> "num", m |-> n]

IsInt(v) == "m" \in DOMAIN v

OddFloat(neg, M, x) ==
    IF x >= 0 /\ BigBitLen(M) + x <= 30
    THEN Num((IF neg THEN 0 - 1 ELSE 1) * IntOfBig(M) * Pow2(x))
    ELSE [t |-> "num", neg |-> neg, b |-> M, x |-> x]

Canon(neg, M, x) ==
    IF M = <<>> THEN Num(0)
    ELSE OddFloat(neg, BigShr(M, BigLowZeros(M)), x + BigLowZeros(M))

(* the double nearest to M * 2^x *)
MakeFloat(neg, M, x, sticky) ==
    IF BigBitLen(M) <= 53 THEN Canon(neg, M, x)
    ELSE Canon(neg, RoundShift(M, BigBitLen(M) - 53, sticky), x + BigBitLen(M) - 53)

RECURSIVE DivTens(_, _, _)
DivTens(d, k, sticky) ==
    IF k = 0 THEN [q |-> d.q, sticky |-> sticky \/ d.r /= 0]
    ELSE DivTens(BigDivSmall(d.q, 10), k - 1, sticky \/ d.r /= 0)

FloatOfScaled(neg, d) == MakeFloat(neg, d.q, 0 - 90, d.sticky)

(* the double nearest to N / 10^k: float() of a decimal literal *)
FromDecimal(neg, N, k) ==
    IF k <= 0 THEN MakeFloat(neg, N, 0, FALSE)
    ELSE FloatOfScaled(neg, DivTens([q |-> BigShl(N, 90), r |-> 0], k, FALSE))

(* the number written m / 10^e *)
Dec(m, e) == FromDecimal(m < 0, BigOfInt(Abs(m)), e)

Parts(v) ==
    IF IsInt(v) THEN [neg |-> v.m < 0, b |-> BigOfInt(Abs(v.m)), x |-> 0]
    ELSE [neg |-> v.neg, b |-> v.b, x |-> v.x]

AddAligned(pneg, A, qneg, B, x0) ==
    IF pneg = qneg THEN MakeFloat(pneg, BigAdd(A, B), x0, FALSE)
    ELSE IF BigLt(A, B) THEN MakeFloat(qneg, BigSub(B, A), x0, FALSE)
    ELSE MakeFloat(pneg, BigSub(A, B), x0, FALSE)

AddParts(p, q, x0) ==
    AddAligned(p.neg, BigShl(p.b, p.x - x0), q.neg, BigShl(q.b, q.x - x0), x0)

(* a + b *)
DecAdd(a, b) ==
    IF IsInt(a) /\ IsInt(b) /\ Abs(a.m + b.m) < Pow2(30) THEN Num(a.m + b.m)
    ELSE AddParts(Parts(a), Parts(b), MinOf(Parts(a).x, Parts(b).x))

LtParts(p, q, x0) ==
    IF p.neg /= q.neg THEN p.neg
    ELSE IF p.neg THEN BigLt(BigShl(q.b, q.x - x0), BigShl(p.b, p.x - x0))
    ELSE BigLt(BigShl(p.b, p.x - x0), BigShl(q.b, q.x - x0))

(* a < b and a <= b *)
DecLt(a, b) ==
    IF IsInt(a) /\ IsInt(b) THEN a.m < b.m
    ELSE LtParts(Parts(a), Parts(b), MinOf(Parts(a).x, Parts(b).x))

DecLe(a, b) == ~DecLt(b, a)

DivParts(p, d) == MakeFloat(p.neg, d.q, p.x - 75, d.r /= 0)

(* a / n for an int n, 0 < n <= 2^15 *)
DecDiv(a, n) == DivParts(Parts(a), BigDivSmall(BigShl(Parts(a).b, 75), n))

(* sum(xs): 0 + xs[0] + xs[1] + .., left to right *)
RECURSIVE DecSum(_)
DecSum(xs) ==
    IF xs = <<>> THEN Num(0) ELSE DecAdd(DecSum(SubSeq(xs, 1, Len(xs) - 1)), xs[Len(xs)])

(* the digits of round(x * 10^places), ties to even *)
RoundedDigits(p, places) ==
    RoundShift(BigMulSmall(p.b, Pow10(places)), 0 - p.x, FALSE)

(* round(x, places): the double nearest to the correctly rounded decimal *)
RoundDec(x, places) ==
    IF IsInt(x) \/ x.x >= 0 THEN x
    ELSE FromDecimal(x.neg, RoundedDigits(Parts(x), places), places)

(* bool(v) *)
Truthy(v) ==
    CASE v.t = "none" -> FALSE
      [] v.t = "num"  -> ~IsInt(v) \/ v.m /= 0
      [] v.t = "str"  -> v.s /= <<>>
      [] v.t = "bool" -> v.b
      [] v.t = "int"  -> TRUE

(* isinstance(v, (int, float)): bool is a subclass of int *)
IsNumber(v) == v.t \in {"num", "bool", "int"}

(* an int too long for Num: (-1)^neg * b * 2^x, b an odd number of any length *)
BigInt(neg, b, x) == [t |-> "int", neg |-> neg, b |-> b, x |-> x]

(* what float(v) does with an int beyond the largest double *)
OverflowError == [t |-> "raise", e |-> "OverflowError"]

(* the nearest double f of an int, when there is one below 2^1024 *)
FloatInRange(f) ==
    IF ~IsInt(f) /\ BigBitLen(f.b) + f.x > 1024 THEN OverflowError ELSE f

(* float(v) of an int, float or bool *)
ToFloat(v) ==
    CASE v.t = "bool" -> Num(IF v.b THEN 1 ELSE 0)
      [] v.t = "int"  -> FloatInRange(MakeFloat(v.neg, v.b, v.x, FALSE))
      [] OTHER        -> v

(* d.get(key) and d.get(key, default) *)
Get(d, key) == IF key \in DOMAIN d THEN d[key] ELSE None

GetOr(d, key, default) == IF key \in DOMAIN d THEN d[key] ELSE default

-----------------------------------------------------------------------------
(* Strings *)

DigitChars == <<"0", "1", "2", "3", "4", "5", "6", "7", "8", "9">>

UpperChars == <<"A", "B", "C", "D", "E", "F", "G", "H", "I", "J", "K", "L", "M",
                "N", "O", "P", "Q", "R", "S", "T", "U", "V", "W", "X", "Y", "Z">>

LowerChars == <<"a", "b", "c", "d", "e", "f", "g", "h", "i", "j", "k", "l", "m",
                "n", "o", "p", "q", "r", "s", "t", "u", "v", "w", "x", "y", "z">>

(* the code point U+D800, a surrogate without its pair, which json.loads reads *)
(* from the escape \ud800 and UTF-8 does not encode                            *)
LoneSurrogate == "U+D800"

(* the characters of the model's strings, in code point order *)
CharOrder == <<" ", "+", ",", "-", ".", "/">> \o DigitChars \o <<":">>
                 \o UpperChars \o <<"_">> \o LowerChars \o <<LoneSurrogate>>

Range(f) == {f[i] : i \in DOMAIN f}

IndexOf(seq, c) == CHOOSE i \in DOMAIN seq : seq[i] = c

Ord(c) == IndexOf(CharOrder, c)

IsDigit(c) == c \in Range(DigitChars)

DigitVal(c) == IndexOf(DigitChars, c) - 1

IsSpace(c) == c = " "

(* s < t in Python's string order (lexicographic by code point) *)
RECURSIVE StrLt(_, _)
StrLt(s, t) ==
    IF t = <<>> THEN FALSE
    ELSE IF s = <<>> THEN TRUE
    ELSE IF s[1] /= t[1] THEN Ord(s[1]) < Ord(t[1])
    ELSE StrLt(Tail(s), Tail(t))

(* s[:n] *)
Prefix(s, n) == SubSeq(s, 1, MinOf(n, Len(s)))

(* s.startswith(p) *)
StartsWith(s, p) == Len(s) >= Len(p) /\ SubSeq(s, 1, Len(p)) = p

(* sub in s *)
Contains(s, sub) ==
    \E i \in 1..(Len(s) - Len(sub) + 1) : SubSeq(s, i, i + Len(sub) - 1) = sub

(* s.strip() *)
RECURSIVE LStrip(_)
LStrip(s) == IF s /= <<>> /\ IsSpace(s[1]) THEN LStrip(Tail(s)) ELSE s

RECURSIVE RStrip(_)
RStrip(s) ==
    IF s /= <<>> /\ IsSpace(s[Len(s)]) THEN RStrip(SubSeq(s, 1, Len(s) - 1)) ELSE s

Strip(s) == RStrip(LStrip(s))

(* s.lower() *)
LowerChar(c) ==
    IF c \in Range(UpperChars) THEN LowerChars[IndexOf(UpperChars, c)] ELSE c

Lower(s) == [i \in DOMAIN s |-> LowerChar(s[i])]

(* s.replace(old, "") *)
RECURSIVE Remove(_, _)
Remove(s, old) ==
    IF s = <<>> THEN <<>>
    ELSE IF StartsWith(s, old) THEN Remove(SubSeq(s, Len(old) + 1, Len(s)), old)
    ELSE <<s[1]>> \o Remove(Tail(s), old)

(* s.split(sep) for a one-character sep *)
RECURSIVE Split(_, _)
Split(s, sep) ==
    IF \A i \in DOMAIN s : s[i] /= sep THEN <<s>>
    ELSE LET k == CHOOSE i \in DOMAIN s :
                      s[i] = sep /\ \A j \in 1..(i - 1) : s[j] /= sep
         IN <<SubSeq(s, 1, k - 1)>> \o Split(SubSeq(s, k + 1, Len(s)), sep)

RECURSIVE DigitsToInt(_)
DigitsToInt(s) ==
    IF s = <<>> THEN 0
    ELSE 10 * DigitsToInt(SubSeq(s, 1, Len(s) - 1)) + DigitVal(s[Len(s)])

RECURSIVE IntDigits(_)
IntDigits(n) ==
    IF n < 10 THEN <<DigitChars[n + 1]>>
    ELSE IntDigits(n \div 10) \o <<DigitChars[(n % 10) + 1]>>

RECURSIVE ZeroPad(_, _)
ZeroPad(s, n) == IF Len(s) >= n THEN s ELSE ZeroPad(<<"0">> \o s, n)

(* min(S) *)
SetMin(S) == CHOOSE x \in S : \A y \in S : x <= y

(* the decimal places of repr(v) of a float that is no integer: the fewest *)
(* that give v back, of at most 4                                          *)
ReprPlaces(v) == SetMin({d \in 1..4 : RoundDec(v, d) = v})

FixedDigits(neg, n, d) ==
    (IF neg THEN <<"-">> ELSE <<>>)
        \o IntDigits(n \div Pow10(d)) \o <<".">> \o ZeroPad(IntDigits(n % Pow10(d)), d)

(* the digits of a float with d decimals *)
FixedRepr(v, d) == FixedDigits(v.neg, IntOfBig(RoundedDigits(Parts(v), d)), d)

(* str(v): of a str, a bool, None, an int, a float of at most 4 decimals *)
PyStr(v) ==
    CASE v.t = "str"  -> v.s
      [] v.t = "bool" -> IF v.b THEN <<"T", "r", "u", "e">>
                         ELSE <<"F", "a", "l", "s", "e">>
      [] v.t = "none" -> <<"N", "o", "n", "e">>
      [] v.t = "num"  ->
            IF IsInt(v)
            THEN (IF v.m < 0 THEN <<"-">> ELSE <<>>) \o IntDigits(Abs(v.m))
            ELSE FixedRepr(v, ReprPlaces(v))

(* an unsigned sequence of digits, at least one *)
IsDigits(s) == s /= <<>> /\ \A i \in DOMAIN s : IsDigit(s[i])

IsSign(c) == c \in {"+", "-"}

(***************************************************************************)
(* float(s) of a string: [ok |-> FALSE] is ValueError.  Surrounding        *)
(* whitespace, a sign, decimal digits with at most one point and an        *)
(* exponent are parsed; digit-group underscores and the words inf / nan    *)
(* are not modelled and the input pools hold none.                         *)
(***************************************************************************)
Negate(neg, n) == IF neg THEN 0 - n ELSE n

IsNegative(s) == s /= <<>> /\ s[1] = "-"

Unsigned(s) == IF s /= <<>> /\ IsSign(s[1]) THEN Tail(s) ELSE s

DotCount(mant) == Len(SelectSeq(mant, LAMBDA c : c = "."))

(* digits with at most one point among them, at least one digit *)
MantissaOk(mant) ==
    /\ \A i \in DOMAIN mant : IsDigit(mant[i]) \/ mant[i] = "."
    /\ DotCount(mant) <= 1
    /\ \E i \in DOMAIN mant : IsDigit(mant[i])

FracDigits(mant) ==
    IF DotCount(mant) = 1 THEN Len(mant) - IndexOf(mant, ".") ELSE 0

(* m * 10^x *)
Shifted(m, x) == IF x >= 0 THEN Dec(m * Pow10(x), 0) ELSE Dec(m, 0 - x)

FloatOfParts(neg, mant, hasExp, expo) ==
    IF MantissaOk(mant) /\ (hasExp => IsDigits(Unsigned(expo)))
    THEN [ok |-> TRUE,
          v  |-> Shifted(Negate(neg, DigitsToInt(SelectSeq(mant, IsDigit))),
                         (IF hasExp
                          THEN Negate(IsNegative(expo), DigitsToInt(Unsigned(expo)))
                          ELSE 0) - FracDigits(mant))]
    ELSE [ok |-> FALSE]

FloatOfSplit(neg, parts) ==
    IF Len(parts) > 2 THEN [ok |-> FALSE]
    ELSE FloatOfParts(neg, parts[1], Len(parts) = 2, parts[Len(parts)])

FloatOfStripped(s) == FloatOfSplit(IsNegative(s), Split(Lower(Unsigned(s)), "e"))

PyFloat(s) == FloatOfStripped(Strip(s))

-----------------------------------------------------------------------------
(* Value normalizers *)

(* a character class that keeps the thousands separator *)
IsDigitOrSeparator(c) == IsDigit(c) \/ c \in {".", ","}

IsCostChar(c) == IsDigit(c) \/ c = "."

(* float(cleaned) if cleaned else 0, with ValueError giving 0 *)
ValueOrZero(f) == IF f.ok THEN f.v ELSE Num(0)

FloatOrZero(cleaned) ==
    IF cleaned = <<>> THEN Num(0) ELSE ValueOrZero(PyFloat(cleaned))

parse_cost(value) ==
    IF value.t = "none" THEN Num(0)
    ELSE IF IsNumber(value) THEN ToFloat(value)
    ELSE FloatOrZero(SelectSeq(PyStr(value), IsCostChar))

parse_days(value) ==
    IF value.t = "none" THEN Num(0)
    ELSE IF IsNumber(value) THEN ToFloat(value)
    ELSE FloatOrZero(PyStr(value))

safe_float(value) ==
    IF value.t = "none" THEN Num(0)
    ELSE IF IsNumber(value) THEN ToFloat(value)
    ELSE FloatOrZero(Remove(Remove(Remove(Remove(PyStr(value), <<",">>), <<" ">>),
                                   <<"S", "A", "R">>), <<"U", "S", "D">>))

-----------------------------------------------------------------------------
(* Sequences, dicts in insertion order, sorting *)

Take(s, n) == SubSeq(s, 1, MinOf(n, Len(s)))

Map(s, F(_)) == [i \in DOMAIN s |-> F(s[i])]

(* len([x for x in s if P(x)]) *)
Count(s, P(_)) == Cardinality({i \in DOMAIN s : P(s[i])})

(* sorted(): a stable sort; x goes in front of the first y it is Before *)
InsertAt(s, k, x) == SubSeq(s, 1, k - 1) \o <<x>> \o SubSeq(s, k, Len(s))

FirstOr(later, default) == IF later = {} THEN default ELSE SetMin(later)

InsertSorted(sorted, x, Before(_, _)) ==
    InsertAt(sorted,
             FirstOr({i \in DOMAIN sorted : Before(x, sorted[i])}, Len(sorted) + 1),
             x)

(* sorted(floats) *)
RECURSIVE SortAsc(_)
SortAsc(xs) ==
    IF xs = <<>> THEN <<>>
    ELSE InsertSorted(SortAsc(SubSeq(xs, 1, Len(xs) - 1)), xs[Len(xs)], DecLt)

HasKey(items, k) == \E i \in DOMAIN items : items[i].k = k

(* Counter(keys): key -> count, keys in first-seen order *)
CounterAdd(items, k) ==
    IF HasKey(items, k)
    THEN [i \in DOMAIN items |->
             IF items[i].k = k THEN [items[i] EXCEPT !.v = @ + 1] ELSE items[i]]
    ELSE Append(items, [k |-> k, v |-> 1])

RECURSIVE Counter(_)
Counter(keys) ==
    IF keys = <<>> THEN <<>>
    ELSE CounterAdd(Counter(SubSeq(keys, 1, Len(keys) - 1)), keys[Len(keys)])

(* d[k] = d.get(k, 0) + x over a list of (k, x), keys in first-seen order *)
AmountAdd(items, p) ==
    IF HasKey(items, p.k)
    THEN [i \in DOMAIN items |->
             IF items[i].k = p.k THEN [items[i] EXCEPT !.v = DecAdd(@, p.v)]
             ELSE items[i]]
    ELSE Append(items, [k |-> p.k, v |-> DecAdd(Num(0), p.v)])

RECURSIVE Amounts(_)
Amounts(pairs) ==
    IF pairs = <<>> THEN <<>>
    ELSE AmountAdd(Amounts(SubSeq(pairs, 1, Len(pairs) - 1)), pairs[Len(pairs)])

(* an ordering that also moves x in front of its ties *)
CountNotAfter(x, y) == y.v <= x.v

CountBefore(x, y) == y.v < x.v

AmountBefore(x, y) == DecLt(y.v, x.v)

(* sorted(items, key=lambda x: x[1], reverse=True) of key -> count *)
RECURSIVE SortCountDesc(_)
SortCountDesc(items) ==
    IF items = <<>> THEN <<>>
    ELSE InsertSorted(SortCountDesc(SubSeq(items, 1, Len(items) - 1)),
                      items[Len(items)], CountBefore)

(* sorted(items, key=lambda x: x[1], reverse=True) of key -> amount *)
RECURSIVE SortAmountDesc(_)
SortAmountDesc(items) ==
    IF items = <<>> THEN <<>>
    ELSE InsertSorted(SortAmountDesc(SubSeq(items, 1, Len(items) - 1)),
                      items[Len(items)], AmountBefore)

(* Counter.most_common(n): heapq.nlargest(n, items, key=count), which is  *)
(* sorted(items, key=count, reverse=True)[:n]                              *)
most_common(items, n) == Take(SortCountDesc(items), n)

(* dict(sorted(d.items(), key=lambda x: x[1], reverse=True)[:n]) *)
top_by_amount(items, n) == Take(SortAmountDesc(items), n)

(* a share per thousand *)
PerMille(part, whole) ==
    IF whole = 0 THEN [num |-> 0, den |-> 1] ELSE [num |-> part * 1000, den |-> whole]

(* a percentage kept exact: num / den *)
Rate(part, whole) ==
    IF whole = 0 THEN [num |-> 0, den |-> 1] ELSE [num |-> part * 100, den |-> whole]

(* round(num / den, places) to a decimal, ties to even *)
RoundHalfEven(n, den) ==
    IF 2 * (n % den) > den \/ (2 * (n % den) = den /\ (n \div den) % 2 = 1)
    THEN (n \div den) + 1 ELSE n \div den

RoundRat(num, den, places) == Dec(RoundHalfEven(num * Pow10(places), den), places)

-----------------------------------------------------------------------------
(* String literals of the code *)

Yes == Str(<<"Y", "e", "s">>)

Unknown == Str(<<"U", "n", "k", "n", "o", "w", "n">>)

Paid == Str(<<"P", "a", "i", "d">>)

No == Str(<<"N", "o">>)

Pending == Str(<<"P", "e", "n", "d", "i", "n", "g">>)

PendingStatuses ==
    { Str(<<"P", "e", "n", "d", "i", "n", "g", " ", "A", "p", "p", "r", "o", "v", "a", "l">>),
      Str(<<"P", "e", "n", "d", "i", "n", "g">>),
      Str(<<"U", "n", "d", "e", "r", " ", "R", "e", "v", "i", "e", "w">>) }

(* top-N caps and the on-time threshold of sync_smartsheet.py *)
SupplierCap == 10

ProjectCap == 20

EquipmentCap == 15

PaymentSupplierCap == 15

RequesterCap == 10

OnTimeDays == 3

-----------------------------------------------------------------------------
(* Statistics shared by the aggregations *)

IsOnTime(d) == DecLe(d, Num(OnTimeDays))

(* what a / 0 does in Python *)
ZeroDivisionError == [t |-> "raise", e |-> "ZeroDivisionError"]

(* what sorted() does with a str and a number to compare *)
TypeError == [t |-> "raise", e |-> "TypeError"]

(* a value that stands for an exception *)
IsRaised(v) == v.t = "raise"

(* the exception the first of the values evaluated raises, else None *)
FirstError(xs) ==
    IF \E i \in DOMAIN xs : IsRaised(xs[i])
    THEN xs[SetMin({i \in DOMAIN xs : IsRaised(xs[i])})]
    ELSE None

(* sum([...]): the elements are evaluated first, the first exception gets out *)
PySum(xs) == IF FirstError(xs) /= None THEN FirstError(xs) ELSE DecSum(xs)

(* an in-place loop r[...] = F(r) that the k-th record's exception ends; k = 0 *)
(* when none raises                                                            *)
Until(rs, k, F(_)) == [i \in DOMAIN rs |-> IF k = 0 \/ i < k THEN F(rs[i]) ELSE rs[i]]

(* a function that raised returns no dict *)
Raise(err) == [raised |-> err.e]

(* the exception gets out of the function, or the function returns its result *)
RaiseOr(err, result) == IF err /= None THEN Raise(err) ELSE result

Returned(result) == "raised" \notin DOMAIN result

(* a / n *)
Divide(a, n) == IF n = 0 THEN ZeroDivisionError ELSE DecDiv(a, n)

(* sum(xs) / len(xs), without the test of the list *)
UnguardedAverage(xs) == Divide(DecSum(xs), Len(xs))

(* sum(xs) / len(xs) if xs else 0 *)
Average(xs) == IF xs = <<>> THEN Num(0) ELSE Divide(DecSum(xs), Len(xs))

(* the lower of the two middle values: sorted[(n - 1) // 2] *)
LowerMedianOf(sorted) == sorted[((Len(sorted) - 1) \div 2) + 1]

(* sorted_times[len(sorted_times) // 2] *)
MedianOf(sorted) == sorted[(Len(sorted) \div 2) + 1]

(* int(len(sorted_times) * 0.9): the float product truncates to 9n // 10 *)
P90Index(n) == (9 * n) \div 10

(* date_str[:7] of a string, str(date_str)[:7] of anything else *)
MonthKey(date_str) == Prefix(PyStr(date_str), 7)

(* monthly[month] = {...: 0} if new; then the count, amount and done += *)
MonthlyAdd(items, month, amount, d) ==
    IF HasKey(items, month)
    THEN [i \in DOMAIN items |->
             IF items[i].k = month
             THEN [items[i] EXCEPT !.orders = @ + 1,
                                   !.amount = DecAdd(@, amount),
                                   !.done = @ + d]
             ELSE items[i]]
    ELSE Append(items, [k |-> month, orders |-> 1,
                        amount |-> DecAdd(Num(0), amount), done |-> d])

(* the descending order of month keys *)
MonthAfter(x, y) == StrLt(y.k, x.k)

MonthBefore(x, y) == StrLt(x.k, y.k)

(* sorted(monthly.items()): the keys are distinct strings *)
RECURSIVE SortMonths(_)
SortMonths(items) ==
    IF items = <<>> THEN <<>>
    ELSE InsertSorted(SortMonths(SubSeq(items, 1, Len(items) - 1)),
                      items[Len(items)], MonthBefore)

-----------------------------------------------------------------------------
(* sync_smartsheet.py: calculate_sla_kpis *)

KpiDone(o) == Get(o, "performed") = Yes /\ Truthy(Get(o, "completion_date"))

(* performed, whatever the completion date *)
KpiPerformed(o) == Get(o, "performed") = Yes

KpiInProgress(o) == Get(o, "performed") = Yes /\ ~Truthy(Get(o, "completion_date"))

HasField(o, field) == Truthy(Get(o, field))

(* [parse_days(o.get(f)) for o in orders if o.get(f)] *)
DaysOf(orders, field) ==
    Map(SelectSeq(orders, LAMBDA o : HasField(o, field)),
        LAMBDA o : parse_days(Get(o, field)))

(* sum(parse_cost(o.get('cost')) for o in orders if o.get('cost')) *)
CostTotal(orders) ==
    DecSum(Map(SelectSeq(orders, LAMBDA o : HasField(o, "cost")),
               LAMBDA o : parse_cost(Get(o, "cost"))))

(* Counter(o.get(f, 'Unknown') for o in orders if o.get(f)) *)
CategoryCounter(orders, field) ==
    Counter(Map(SelectSeq(orders, LAMBDA o : HasField(o, field)),
                LAMBDA o : GetOr(o, field, Unknown)))

(* for o in orders: k = o.get(f, 'Unknown'); if k: costs[k] += parse_cost(cost) *)
CategoryCosts(orders, field) ==
    Amounts(Map(SelectSeq(orders, LAMBDA o : Truthy(GetOr(o, field, Unknown))),
                LAMBDA o : [k |-> GetOr(o, field, Unknown),
                            v |-> parse_cost(Get(o, "cost"))]))

(* for o in orders: projects[o.get('project', 'Unknown')] += parse_cost(cost) *)
ProjectCosts(orders) ==
    Amounts(Map(orders, LAMBDA o : [k |-> GetOr(o, "project", Unknown),
                                    v |-> parse_cost(Get(o, "cost"))]))

(* one pass of the monthly loop of calculate_sla_kpis / calculate_payments_kpis *)
KpiMonthlyStep(monthly, o, date_str) ==
    IF Truthy(date_str)
    THEN MonthlyAdd(monthly, MonthKey(date_str), parse_cost(Get(o, "cost")), 0)
    ELSE monthly

RECURSIVE KpiMonthly(_)
KpiMonthly(orders) ==
    IF orders = <<>> THEN <<>>
    ELSE KpiMonthlyStep(KpiMonthly(SubSeq(orders, 1, Len(orders) - 1)),
                        orders[Len(orders)],
                        GetOr(orders[Len(orders)], "job_order_date", Str(<<>>)))

KpiTrend(monthly) ==
    Map(SortMonths(monthly),
        LAMBDA x : [month |-> x.k, orders |-> x.orders, amount |-> x.amount])

(* total, the status counts, total_amount and open_orders *)
KpiCounts(orders, total, done, in_progress) ==
    [ total        |-> total,
      done         |-> done,
      in_progress  |-> in_progress,
      not_done     |-> total - done - in_progress,
      total_amount |-> CostTotal(orders),
      open_orders  |-> Count(orders, LAMBDA o : ~HasField(o, "completion_date")) ]

(* the duration statistics of calculate_sla_kpis *)
KpiDurations(completion_times, sorted_times, n, on_time) ==
    [ completion_times |-> completion_times,
      avg_duration     |-> Average(completion_times),
      sorted_times     |-> sorted_times,
      median_duration  |-> IF n > 0 THEN MedianOf(sorted_times) ELSE Num(0),
      p90_duration     |-> IF n > 0 THEN sorted_times[P90Index(n) + 1] ELSE Num(0),
      on_time          |-> on_time,
      on_time_rate     |-> Rate(on_time, n) ]

KpiDurationsOf(completion_times) ==
    KpiDurations(completion_times, SortAsc(completion_times), Len(completion_times),
                 Count(completion_times, IsOnTime))

(* the distributions of calculate_sla_kpis *)
KpiCategories(suppliers, supplier_costs, projects_count, projects, equipment, equipment_costs) ==
    [ suppliers          |-> suppliers,
      top_suppliers      |-> most_common(suppliers, SupplierCap),
      supplier_costs     |-> supplier_costs,
      top_supplier_costs |-> top_by_amount(supplier_costs, SupplierCap),
      projects_count     |-> projects_count,
      top_projects_count |-> most_common(projects_count, ProjectCap),
      projects           |-> projects,
      top_projects       |-> top_by_amount(projects, ProjectCap),
      equipment          |-> equipment,
      equipment_count    |-> most_common(equipment, EquipmentCap),
      equipment_costs    |-> equipment_costs,
      equipment_cost     |-> top_by_amount(equipment_costs, EquipmentCap) ]

KpiMonthlyLocals(monthly) ==
    [ monthly |-> monthly, monthly_trend |-> KpiTrend(monthly) ]

(* the scalar local variables of calculate_sla_kpis *)
KpiScalars(orders) ==
    KpiCounts(orders, Len(orders), Count(orders, KpiDone), Count(orders, KpiInProgress))
    @@ KpiDurationsOf(DaysOf(orders, "completion_days"))

(* the local variables of calculate_sla_kpis at its return statement *)
sla_kpis_locals(orders) ==
    KpiScalars(orders)
    @@ KpiCategories(CategoryCounter(orders, "supplier"),
                     CategoryCosts(orders, "supplier"),
                     CategoryCounter(orders, "project"),
                     ProjectCosts(orders),
                     CategoryCounter(orders, "equipment_type"),
                     CategoryCosts(orders, "equipment_type"))
    @@ KpiMonthlyLocals(KpiMonthly(orders))

(* the 'summary' of the dict calculate_sla_kpis returns (last_update left out) *)
sla_kpis_summary(c) ==
    [ total_orders       |-> c.total,
      done_orders        |-> c.done,
      in_progress_orders |-> c.in_progress,
      not_done_orders    |-> c.not_done,
      on_time_rate       |-> RoundRat(c.on_time_rate.num, c.on_time_rate.den, 2),
      total_amount       |-> RoundDec(c.total_amount, 2),
      avg_duration       |-> RoundDec(c.avg_duration, 2),
      median_duration    |-> c.median_duration,
      p90_duration       |-> c.p90_duration,
      open_orders        |-> c.open_orders ]

(* the dict calculate_sla_kpis returns *)
sla_kpis_report(c) ==
    [ summary |-> sla_kpis_summary(c),
      status |-> [ Done |-> c.done, InProgress |-> c.in_progress, NotDone |-> c.not_done ],
      top_suppliers          |-> c.top_suppliers,
      suppliers              |-> c.top_supplier_costs,
      top_projects           |-> c.top_projects,
      projects_orders        |-> c.top_projects_count,
      projects_amounts       |-> c.top_projects,
      equipment_distribution |-> c.equipment_count,
      equipment_count        |-> c.equipment_count,
      equipment_cost         |-> c.equipment_cost,
      monthly_trend          |-> c.monthly_trend ]

(* what calculate_sla_kpis hands back: its dict, unless a division raised *)
sla_kpis_result(c) ==
    IF c.avg_duration = ZeroDivisionError THEN Raise(ZeroDivisionError)
    ELSE sla_kpis_report(c)

(* the exception of parse_days and parse_cost that gets out of calculate_sla_kpis, *)
(* else None: the one in the monthly loop would be caught there                   *)
SlaKpisError(orders) ==
    FirstError(Map(orders, LAMBDA o : parse_days(Get(o, "completion_days")))
               \o Map(orders, LAMBDA o : parse_cost(Get(o, "cost"))))

calculate_sla_kpis(orders) ==
    RaiseOr(SlaKpisError(orders), sla_kpis_result(sla_kpis_locals(orders)))

-----------------------------------------------------------------------------
(* sync_smartsheet.py: calculate_payments_kpis *)

InvoiceApplicable(o) == Get(o, "invoice_applicable") = Yes

IsPaid(o) == Get(o, "payment_status") = Paid

IsPending(o) == Get(o, "payment_status") \in PendingStatuses

PaymentsTrend(monthly) ==
    Map(SortMonths(monthly),
        LAMBDA x : [month |-> x.k, invoices |-> x.orders, amount |-> x.amount])

PaymentsCounts(invoice_orders, total, paid, pending) ==
    [ invoice_orders      |-> invoice_orders,
      total               |-> total,
      paid                |-> paid,
      pending             |-> pending,
      other               |-> total - paid - pending,
      total_amount        |-> CostTotal(invoice_orders),
      avg_completion      |-> Average(DaysOf(invoice_orders, "completion_days")),
      avg_payment_cycle   |-> Average(DaysOf(invoice_orders, "payment_cycle_days")),
      avg_invoice_receive |-> Average(DaysOf(invoice_orders, "invoice_receive_days")),
      payment_rate        |-> Rate(paid, total) ]

(* the distributions of calculate_payments_kpis *)
PaymentsCategories(suppliers, projects, equipment, requesters) ==
    [ suppliers           |-> suppliers,
      top_suppliers       |-> most_common(suppliers, PaymentSupplierCap),
      projects            |-> projects,
      top_projects        |-> most_common(projects, ProjectCap),
      equipment           |-> equipment,
      equipment_requested |-> most_common(equipment, EquipmentCap),
      requesters          |-> requesters,
      top_requesters      |-> most_common(requesters, RequesterCap) ]

PaymentsOfInvoices(invoice_orders) ==
    PaymentsCounts(invoice_orders, Len(invoice_orders),
                   Count(invoice_orders, IsPaid), Count(invoice_orders, IsPending))
    @@ PaymentsCategories(CategoryCounter(invoice_orders, "supplier"),
                          CategoryCounter(invoice_orders, "project"),
                          CategoryCounter(invoice_orders, "equipment_type"),
                          CategoryCounter(invoice_orders, "requester"))
    @@ [ monthly |-> KpiMonthly(invoice_orders) ]

PaymentsWithTrend(c) == c @@ [ monthly_trend |-> PaymentsTrend(c.monthly) ]

(* the local variables of calculate_payments_kpis at its return statement *)
payments_kpis_locals(orders) ==
    PaymentsWithTrend(PaymentsOfInvoices(SelectSeq(orders, InvoiceApplicable)))

(* the dict calculate_payments_kpis returns (last_update left out) *)
payments_kpis_report(c) ==
    [ summary |->
        [ total_invoices      |-> c.total,
          paid_invoices       |-> c.paid,
          pending_invoices    |-> c.pending,
          other_status        |-> c.other,
          total_amount        |-> RoundDec(c.total_amount, 2),
          avg_completion_days |-> RoundDec(c.avg_completion, 1),
          avg_payment_cycle   |-> RoundDec(c.avg_payment_cycle, 1),
          avg_invoice_receive |-> RoundDec(c.avg_invoice_receive, 1),
          payment_rate        |-> RoundRat(c.payment_rate.num, c.payment_rate.den, 1) ],
      payment_status |-> [ Paid |-> c.paid, PendingApproval |-> c.pending, Other |-> c.other ],
      suppliers           |-> c.top_suppliers,
      projects            |-> c.top_projects,
      equipment_requested |-> c.equipment_requested,
      requesters          |-> c.top_requesters,
      monthly_trend       |-> c.monthly_trend ]

(* what calculate_payments_kpis hands back: its dict, unless a division raised *)
payments_kpis_result(c) ==
    IF ZeroDivisionError \in {c.avg_completion, c.avg_payment_cycle, c.avg_invoice_receive}
    THEN Raise(ZeroDivisionError)
    ELSE payments_kpis_report(c)

DayFields == <<"completion_days", "payment_cycle_days", "invoice_receive_days">>

(* the exception of the normalizers that gets out of calculate_payments_kpis, *)
(* else None                                                                  *)
PaymentsKpisError(invoice_orders) ==
    FirstError(Map(invoice_orders, LAMBDA o : parse_cost(Get(o, "cost")))
               \o Map(invoice_orders, LAMBDA o :
                          FirstError(Map(DayFields, LAMBDA f : parse_days(Get(o, f))))))

calculate_payments_kpis(orders) ==
    RaiseOr(PaymentsKpisError(SelectSeq(orders, InvoiceApplicable)),
            payments_kpis_result(payments_kpis_locals(orders)))

-----------------------------------------------------------------------------
(* sync_sla.py: calculate_sla_metrics *)

Done == Str(<<"D", "o", "n", "e">>)

InProgress == Str(<<"I", "n", " ", "P", "r", "o", "g", "r", "e", "s", "s">>)

NotDone == Str(<<"N", "o", "t", " ", "D", "o", "n", "e">>)

DoneSynonyms ==
    { <<"d", "o", "n", "e">>,
      <<"c", "o", "m", "p", "l", "e", "t", "e", "d">>,
      <<"c", "o", "m", "p", "l", "e", "t", "e">> }

InProgressSynonyms ==
    { <<"i", "n", " ", "p", "r", "o", "g", "r", "e", "s", "s">>,
      <<"i", "n", "p", "r", "o", "g", "r", "e", "s", "s">>,
      <<"p", "e", "n", "d", "i", "n", "g">>,
      <<"u", "n", "d", "e", "r", " ", "p", "r", "o", "c", "e", "s", "s">>,
      <<"w", "a", "i", "t", "i", "n", "g", " ", "f", "o", "r", " ",
        "q", "u", "o", "t", "a", "t", "i", "o", "n">> }

SlaSupplierCap == 10

SlaProjectCap == 20

SlaEquipmentCap == 15

SlaOnTimeDays == 3

EquipmentFields ==
    <<"equipment_1", "equipment_2", "equipment_3", "equipment_4", "equipment_5">>

PriceFields == <<"price_1", "price_2", "price_3", "price_4", "price_5">>

(* d[key] = v *)
SetKey(d, key, v) ==
    [x \in DOMAIN d \cup {key} |-> IF x = key THEN v ELSE d[x]]

(* the else branch keeping the raw text in place of 'Not Done' *)
StatusKept(status) ==
    IF status \in DoneSynonyms THEN Done
    ELSE IF status \in InProgressSynonyms THEN InProgress
    ELSE Str(status)

(* the label the status loop stores in r["status"] *)
StatusLabel(status) ==
    IF status \in DoneSynonyms THEN Done
    ELSE IF status \in InProgressSynonyms THEN InProgress
    ELSE IF status /= <<>> THEN NotDone ELSE InProgress

SlaStatus(r) == StatusLabel(Lower(Strip(PyStr(GetOr(r, "status", Str(<<>>))))))

(* the value the amount loop stores in r["total_amount"] *)
SlaTotalAmount(r) ==
    IF ~Truthy(Get(r, "total_amount"))
    THEN PySum(Map(PriceFields, LAMBDA f : safe_float(Get(r, f))))
    ELSE safe_float(Get(r, "total_amount"))

SlaSetStatus(r) == SetKey(r, "status", SlaStatus(r))

SlaSetAmount(r) == SetKey(r, "total_amount", SlaTotalAmount(r))

(* the record list after the two in-place loops of calculate_sla_metrics; an *)
(* exception of safe_float ends the amount loop at its record                *)
SlaNormalize(records0) ==
    Until(Map(records0, SlaSetStatus),
          FirstOr({i \in DOMAIN records0 : IsRaised(SlaTotalAmount(records0[i]))}, 0),
          SlaSetAmount)

SlaHasDuration(r) ==
    Truthy(Get(r, "duration")) /\ DecLt(Num(0), safe_float(Get(r, "duration")))

SlaIsOnTime(d) == DecLe(d, Num(SlaOnTimeDays))

(* r.get("supplier") and not str(r.get("supplier", "")).startswith("202") *)
SlaHasSupplier(r) ==
    /\ Truthy(Get(r, "supplier"))
    /\ ~StartsWith(PyStr(GetOr(r, "supplier", Str(<<>>))), <<"2", "0", "2">>)

AmountOf(r) == GetOr(r, "total_amount", Num(0))

(* Counter / amounts over the records that pass the filter, keyed by field *)
SlaCounter(rs, field, Keep(_)) ==
    Counter(Map(SelectSeq(rs, Keep), LAMBDA r : Get(r, field)))

SlaAmounts(rs, field, Keep(_)) ==
    Amounts(Map(SelectSeq(rs, Keep), LAMBDA r : [k |-> Get(r, field), v |-> AmountOf(r)]))

(* eq and isinstance(eq, str) *)
IsEquipment(eq) == Truthy(eq) /\ eq.t = "str"

(* the (eq, price) of the slots of r with eq and isinstance(eq, str) *)
SlotPairs(r) ==
    Map(SelectSeq(<<1, 2, 3, 4, 5>>, LAMBDA i : IsEquipment(Get(r, EquipmentFields[i]))),
        LAMBDA i : [k |-> Get(r, EquipmentFields[i]),
                    v |-> safe_float(Get(r, PriceFields[i]))])

RECURSIVE EquipmentPairs(_)
EquipmentPairs(rs) ==
    IF rs = <<>> THEN <<>>
    ELSE EquipmentPairs(SubSeq(rs, 1, Len(rs) - 1)) \o SlotPairs(rs[Len(rs)])

(* one pass of the monthly loop of calculate_sla_metrics *)
SlaMonthlyStep(monthly, r, date_str) ==
    IF Truthy(date_str)
    THEN MonthlyAdd(monthly, Prefix(PyStr(date_str), 7), AmountOf(r),
                    IF Get(r, "status") = Done THEN 1 ELSE 0)
    ELSE monthly

RECURSIVE SlaMonthly(_)
SlaMonthly(rs) ==
    IF rs = <<>> THEN <<>>
    ELSE SlaMonthlyStep(SlaMonthly(SubSeq(rs, 1, Len(rs) - 1)), rs[Len(rs)],
                        Get(rs[Len(rs)], "request_date"))

SlaTrend(monthly) ==
    Map(SortMonths(monthly),
        LAMBDA x : [month |-> x.k, orders |-> x.orders, amount |-> x.amount,
                    done |-> x.done,
                    completion_rate |->
                        IF x.orders > 0
                        THEN RoundRat(x.done * 100, x.orders, 1) ELSE Num(0)])

IsStatus(r, label) == Get(r, "status") = label

SlaCounts(rs, total_orders, done_orders, in_progress_orders, not_done_orders) ==
    [ total_orders       |-> total_orders,
      done_orders        |-> done_orders,
      in_progress_orders |-> in_progress_orders,
      not_done_orders    |-> not_done_orders,
      total_amount       |-> DecSum(Map(rs, AmountOf)),
      completion_rate    |-> Rate(done_orders, total_orders),
      open_orders        |-> in_progress_orders + not_done_orders,
      company_counts     |-> SlaCounter(rs, "company", LAMBDA r : HasField(r, "company")) ]

(* the duration statistics of calculate_sla_metrics *)
SlaDurations(durations, sorted_durations, n, on_time) ==
    [ durations        |-> durations,
      sorted_durations |-> sorted_durations,
      avg_duration     |-> Average(durations),
      median_duration  |-> IF n > 0 THEN MedianOf(sorted_durations) ELSE Num(0),
      p90_duration     |-> IF n > 0
                           THEN sorted_durations[MinOf(P90Index(n), n - 1) + 1]
                           ELSE Num(0),
      on_time          |-> on_time,
      on_time_rate     |-> Rate(on_time, n) ]

SlaDurationsOf(durations) ==
    SlaDurations(durations, SortAsc(durations), Len(durations),
                 Count(durations, SlaIsOnTime))

(* the distributions of calculate_sla_metrics *)
SlaCategories(supplier_counts, supplier_amounts, project_counts, project_amounts, equipment_counts, equipment_amounts) ==
    [ supplier_counts         |-> supplier_counts,
      supplier_amounts        |-> supplier_amounts,
      top_suppliers           |-> most_common(supplier_counts, SlaSupplierCap),
      top_suppliers_by_amount |-> top_by_amount(supplier_amounts, SlaSupplierCap),
      project_counts          |-> project_counts,
      project_amounts         |-> project_amounts,
      top_projects_by_orders  |-> most_common(project_counts, SlaProjectCap),
      top_projects_by_amount  |-> top_by_amount(project_amounts, SlaProjectCap),
      equipment_counts        |-> equipment_counts,
      equipment_amounts       |-> equipment_amounts,
      equipment_distribution  |-> most_common(equipment_counts, SlaEquipmentCap),
      equipment_by_amount     |-> top_by_amount(equipment_amounts, SlaEquipmentCap) ]

SlaEquipment(pairs) ==
    [ counts |-> Counter(Map(pairs, LAMBDA p : p.k)), amounts |-> Amounts(pairs) ]

SlaCategoriesOf(rs, equipment) ==
    SlaCategories(SlaCounter(rs, "supplier", SlaHasSupplier),
                  SlaAmounts(rs, "supplier", SlaHasSupplier),
                  SlaCounter(rs, "project", LAMBDA r : HasField(r, "project")),
                  SlaAmounts(rs, "project", LAMBDA r : HasField(r, "project")),
                  equipment.counts, equipment.amounts)

SlaMonthlyLocals(monthly_data) ==
    [ monthly_data |-> monthly_data, monthly_trend |-> SlaTrend(monthly_data) ]

(* the scalar local variables of calculate_sla_metrics *)
SlaScalars(rs) ==
    SlaCounts(rs, Len(rs), Count(rs, LAMBDA r : IsStatus(r, Done)),
              Count(rs, LAMBDA r : IsStatus(r, InProgress)),
              Count(rs, LAMBDA r : IsStatus(r, NotDone)))
    @@ SlaDurationsOf(Map(SelectSeq(rs, SlaHasDuration),
                          LAMBDA r : safe_float(Get(r, "duration"))))

(* the local variables of calculate_sla_metrics at its return statement;  *)
(* rs is the record list after the in-place loops                          *)
sla_metrics_locals(rs) ==
    SlaScalars(rs)
    @@ SlaCategoriesOf(rs, SlaEquipment(EquipmentPairs(rs)))
    @@ SlaMonthlyLocals(SlaMonthly(rs))

(* the 'summary' of the dict calculate_sla_metrics returns (last_update left out) *)
sla_metrics_summary(c) ==
    [ total_orders       |-> c.total_orders,
      done_orders        |-> c.done_orders,
      in_progress_orders |-> c.in_progress_orders,
      not_done_orders    |-> c.not_done_orders,
      open_orders        |-> c.open_orders,
      on_time_rate       |-> RoundRat(c.on_time_rate.num, c.on_time_rate.den, 1),
      completion_rate    |-> RoundRat(c.completion_rate.num, c.completion_rate.den, 1),
      total_amount       |-> RoundDec(c.total_amount, 2),
      avg_duration       |-> RoundDec(c.avg_duration, 2),
      median_duration    |-> RoundDec(c.median_duration, 1),
      p90_duration       |-> RoundDec(c.p90_duration, 1) ]

(* the dict calculate_sla_metrics returns *)
sla_metrics_report(c) ==
    [ summary |-> sla_metrics_summary(c),
      status |-> [ Done |-> c.done_orders, InProgress |-> c.in_progress_orders,
                   NotDone |-> c.not_done_orders ],
      company_breakdown      |-> c.company_counts,
      top_suppliers          |-> c.top_suppliers,
      suppliers_by_amount    |-> c.top_suppliers_by_amount,
      top_projects_by_orders |-> c.top_projects_by_orders,
      top_projects_by_amount |-> c.top_projects_by_amount,
      equipment_distribution |-> c.equipment_distribution,
      equipment_by_amount    |-> c.equipment_by_amount,
      monthly_trend          |-> c.monthly_trend ]

(* what calculate_sla_metrics hands back: its dict, unless a division raised *)
sla_metrics_result(c) ==
    IF c.avg_duration = ZeroDivisionError THEN Raise(ZeroDivisionError)
    ELSE sla_metrics_report(c)

(* the exception of safe_float that gets out of calculate_sla_metrics, else *)
(* None: of the amount loop, of the durations, of the equipment prices      *)
SlaMetricsError(records0) ==
    FirstError(Map(records0, SlaTotalAmount)
               \o Map(records0, LAMBDA r : safe_float(Get(r, "duration")))
               \o Map(records0, LAMBDA r :
                          FirstError(Map(PriceFields, LAMBDA f : safe_float(Get(r, f))))))

(* what calculate_sla_metrics returns on the list records0, which its two *)
(* in-place loops have left as normalized                                *)
SlaMetricsOf(records0, normalized) ==
    RaiseOr(SlaMetricsError(records0), sla_metrics_result(sla_metrics_locals(normalized)))

(* calculate_sla_metrics(records): the dict it returns; the list is left as *)
(* SlaNormalize(records0)                                                   *)
calculate_sla_metrics(records0) == SlaMetricsOf(records0, SlaNormalize(records0))

-----------------------------------------------------------------------------
(* sync_smartsheet_data.py: calculate_statistics *)

APPROVED == Str(<<"A", "P", "P", "R", "O", "V", "E", "D">>)

RETURNED == Str(<<"R", "E", "T", "U", "R", "N", "E", "D">>)

REJECTED == Str(<<"R", "E", "J", "E", "C", "T", "E", "D">>)

Within30Days == 30

UNKNOWN == Str(<<"U", "N", "K", "N", "O", "W", "N">>)

(* a or b *)
PyOr(a, b) == IF Truthy(a) THEN a ELSE b

(* int(s) of a string: [ok |-> FALSE] is ValueError; digit-group           *)
(* underscores are not modelled                                            *)
IntOfStripped(s) ==
    IF IsDigits(Unsigned(s))
    THEN [ok |-> TRUE, n |-> Negate(IsNegative(s), DigitsToInt(Unsigned(s)))]
    ELSE [ok |-> FALSE]

PyInt(s) == IntOfStripped(Strip(s))

(* pr.get('submission_date') or pr.get('approved_date') *)
PrDate(pr) == PyOr(Get(pr, "submission_date"), Get(pr, "approved_date"))

(* date_str and '2025' in str(date_str) *)
In2025(pr) ==
    Truthy(PrDate(pr)) /\ Contains(PyStr(PrDate(pr)), <<"2", "0", "2", "5">>)

MonthOfInt(m) ==
    IF m.ok /\ 0 <= m.n - 1 /\ m.n - 1 < 12
    THEN [ok |-> TRUE, month |-> m.n - 1] ELSE [ok |-> FALSE]

MonthOfParts(parts) ==
    IF Len(parts) >= 2 THEN MonthOfInt(PyInt(parts[2])) ELSE [ok |-> FALSE]

(* int(date_str.split('-')[1]) - 1 when that is in 0..11, else no month:   *)
(* IndexError and ValueError are swallowed by the bare except              *)
PrMonth(pr) ==
    IF Truthy(PrDate(pr)) THEN MonthOfParts(Split(PyStr(PrDate(pr)), "-"))
    ELSE [ok |-> FALSE]

(* monthly_approved / monthly_returned / monthly_rejected for one status *)
MonthlyCounts(prs_2025, status) ==
    [i \in 1..12 |->
        Count(prs_2025, LAMBDA pr : /\ PrMonth(pr).ok
                                    /\ PrMonth(pr).month = i - 1
                                    /\ Get(pr, "status") = status)]

(* round((returned / approved) * 100, 1) if approved > 0 else 0 *)
ReturnRate(returned, approved) ==
    IF approved > 0 THEN RoundRat(returned * 100, approved, 1) ELSE Num(0)

YearOfParts(parts) == IF IsDigits(parts[1]) THEN {parts[1]} ELSE {}

(* the year of a request, if date_str.split('-')[0].isdigit() *)
PrYear(pr) ==
    IF Truthy(PrDate(pr)) THEN YearOfParts(Split(PyStr(PrDate(pr)), "-")) ELSE {}

StrBefore(x, y) == StrLt(x.s, y.s)

StrMin(S) == CHOOSE a \in S : \A b \in S : ~StrBefore(b, a)

SortedFrom(x, rest) == <<x>> \o rest

(* sorted(set(values)) of strings *)
RECURSIVE SortStrings(_)
SortStrings(S) ==
    IF S = {} THEN <<>> ELSE SortedFrom(StrMin(S), SortStrings(S \ {StrMin(S)}))

Reverse(s) == [i \in DOMAIN s |-> s[Len(s) + 1 - i]]

StatsSummary(all_prs, approved_2025, returned_2025, prs_with_po, valid_days) ==
    [ total_prs           |-> Len(all_prs),
      total_approved_2025 |-> approved_2025,
      total_returned_2025 |-> returned_2025,
      return_rate_2025    |-> ReturnRate(returned_2025, approved_2025),
      status_breakdown    |-> Counter(Map(SelectSeq(all_prs,
                                  LAMBDA pr : Truthy(GetOr(pr, "status", UNKNOWN))),
                                  LAMBDA pr : GetOr(pr, "status", UNKNOWN))),
      avg_pr_to_po_days   |-> RoundDec(Average(valid_days), 1),
      within_30_days      |-> Count(valid_days, LAMBDA d : DecLe(d, Num(Within30Days))),
      after_30_days       |-> Count(valid_days, LAMBDA d : DecLt(Num(Within30Days), d)),
      total_with_po       |-> Len(prs_with_po) ]

StatsMonthly(monthly_approved, monthly_returned, monthly_rejected) ==
    [ approved    |-> monthly_approved,
      returned    |-> monthly_returned,
      rejected    |-> monthly_rejected,
      return_rate |-> [i \in 1..12 |->
                          ReturnRate(monthly_returned[i], monthly_approved[i])] ]

StatsFilters(all_prs) ==
    [ projects |-> SortStrings({Get(pr, "project") : pr \in
                       {q \in Range(all_prs) : Truthy(Get(q, "project"))}}),
      vendors  |-> SortStrings({Get(pr, "vendor") : pr \in
                       {q \in Range(all_prs) : Truthy(Get(q, "vendor"))}}),
      years    |-> Reverse(SortStrings({Str(y) : y \in
                       UNION {PrYear(pr) : pr \in Range(all_prs)}})) ]

HasPo(pr) == Truthy(Get(pr, "po_num")) /\ Truthy(Get(pr, "pr_to_po_days"))

ValidDays(prs_with_po) ==
    Map(SelectSeq(prs_with_po, LAMBDA pr : IsNumber(Get(pr, "pr_to_po_days"))),
        LAMBDA pr : ToFloat(Get(pr, "pr_to_po_days")))

StatsOf(all_prs, prs_2025, prs_with_po) ==
    [ summary |-> StatsSummary(all_prs,
                      Count(prs_2025, LAMBDA pr : Get(pr, "status") = APPROVED),
                      Count(prs_2025, LAMBDA pr : Get(pr, "status") = RETURNED),
                      prs_with_po, ValidDays(prs_with_po)),
      monthly |-> StatsMonthly(MonthlyCounts(prs_2025, APPROVED),
                               MonthlyCounts(prs_2025, RETURNED),
                               MonthlyCounts(prs_2025, REJECTED)),
      filters |-> StatsFilters(all_prs) ]

(* what calculate_statistics hands back: its dict, unless the average raised *)
StatsResult(all_prs, prs_with_po) ==
    IF Average(ValidDays(prs_with_po)) = ZeroDivisionError THEN Raise(ZeroDivisionError)
    ELSE StatsOf(all_prs, SelectSeq(all_prs, In2025), prs_with_po)

calculate_statistics(all_prs) == StatsResult(all_prs, SelectSeq(all_prs, HasPo))

-----------------------------------------------------------------------------
(* sync_logistics.py: prepare_transportation_data *)

LogisticsInProgress ==
    { <<"i", "n", " ", "p", "r", "o", "g", "r", "e", "s", "s">>,
      <<"i", "n", "p", "r", "o", "g", "r", "e", "s", "s">>,
      <<"p", "e", "n", "d", "i", "n", "g">> }

LogisticsNotDone ==
    { <<"n", "o", "t", " ", "d", "o", "n", "e">>,
      <<"c", "a", "n", "c", "e", "l", "l", "e", "d">>,
      <<"c", "a", "n", "c", "e", "l", "e", "d">> }

(* the value the amount loop stores in r["total_amount"] *)
TransportTotalAmount(r) ==
    IF ~Truthy(Get(r, "total_amount"))
    THEN PySum(Map(PriceFields, LAMBDA f : safe_float(Get(r, f))))
    ELSE safe_float(Get(r, "total_amount"))

(* the value the status loop stores in r["status"] *)
TransportStatusLabel(status, r) ==
    IF status \in DoneSynonyms THEN Done
    ELSE IF status \in LogisticsInProgress THEN InProgress
    ELSE IF status \in LogisticsNotDone THEN NotDone
    ELSE IF status = <<>> THEN InProgress
    ELSE GetOr(r, "status", InProgress)

TransportStatus(r) ==
    TransportStatusLabel(Lower(Strip(PyStr(GetOr(r, "status", Str(<<>>))))), r)

TransportSetAmount(r) == SetKey(r, "total_amount", TransportTotalAmount(r))

TransportSetStatus(r) == SetKey(r, "status", TransportStatus(r))

(* the record the amount loop stops at with an exception of safe_float, else 0 *)
TransportAmountRaised(records0) ==
    FirstOr({i \in DOMAIN records0 : IsRaised(TransportTotalAmount(records0[i]))}, 0)

(* the record list after the two in-place loops of prepare_transportation_data; *)
(* an exception in the amount loop leaves the later records and every status as *)
(* they were                                                                    *)
TransportLoops(records0, raised) ==
    IF raised /= 0
    THEN Until(records0, raised, TransportSetAmount)
    ELSE Map(Map(records0, TransportSetAmount), TransportSetStatus)

TransportNormalize(records0) == TransportLoops(records0, TransportAmountRaised(records0))

(* the values of a field that are truthy *)
FieldValues(rs, field) ==
    {Get(rs[i], field) : i \in {j \in DOMAIN rs : Truthy(Get(rs[j], field))}}

(* a == b of two cell values: numbers and booleans compare by value *)
PyEq(a, b) ==
    IF IsNumber(a) /\ IsNumber(b) THEN ToFloat(a) = ToFloat(b) ELSE a = b

(* a < b of two strings or of two numbers *)
PyLt(a, b) == IF a.t = "str" THEN StrLt(a.s, b.s) ELSE DecLt(ToFloat(a), ToFloat(b))

(* set(r.get(field) for r in rs if r.get(field)): of the values equal to one *)
(* another the set keeps the first                                           *)
PySet(rs, field) ==
    {Get(rs[i], field) :
        i \in {j \in DOMAIN rs :
                  /\ Truthy(Get(rs[j], field))
                  /\ \A k \in 1..(j - 1) : ~PyEq(Get(rs[k], field), Get(rs[j], field))}}

PyMin(S) == CHOOSE a \in S : \A b \in S : ~PyLt(b, a)

RECURSIVE SortValues(_)
SortValues(S) ==
    IF S = {} THEN <<>> ELSE SortedFrom(PyMin(S), SortValues(S \ {PyMin(S)}))

(* sorted(values): a str and a number do not compare *)
PySorted(S) ==
    IF (\E a \in S : a.t = "str") /\ (\E b \in S : b.t /= "str")
    THEN [ok |-> FALSE, v |-> TypeError]
    ELSE [ok |-> TRUE, v |-> SortValues(S)]

(* the sorted sets of the fields, or the exception of the first that does not sort *)
SortedFields(rs, fields) ==
    FirstError(Map(fields, LAMBDA f : IF PySorted(PySet(rs, f)).ok THEN None
                                      ELSE PySorted(PySet(rs, f)).v))

(* sorted([str(p) for p in set(r.get("project") for r in records if r.get("project"))]) *)
SortedTexts(values) == SortStrings({Str(PyStr(v)) : v \in values})

TransportSuppliers(rs) ==
    {Get(rs[i], "supplier") : i \in {j \in DOMAIN rs : SlaHasSupplier(rs[j])}}

(* the equipment_1 .. equipment_5 values that are non-empty strings *)
TransportEquipment(rs) ==
    {v \in UNION {FieldValues(rs, EquipmentFields[i]) : i \in DOMAIN EquipmentFields} :
        v.t = "str"}

OrDefault(values, default) == IF values = <<>> THEN default ELSE values

TransportFilters(rs) ==
    [ projects   |-> SortedTexts(FieldValues(rs, "project")),
      suppliers  |-> SortedTexts(TransportSuppliers(rs)),
      equipment  |-> SortStrings(TransportEquipment(rs)),
      rent_types |-> OrDefault(PySorted(PySet(rs, "rent_type")).v,
                               <<Str(<<"D", "a", "i", "l", "y">>),
                                 Str(<<"M", "o", "n", "t", "h", "l", "y">>),
                                 Str(<<"H", "o", "u", "r", "l", "y">>)>>),
      status     |-> OrDefault(PySorted(PySet(rs, "status")).v,
                               <<Done, InProgress, NotDone>>),
      companies  |-> PySorted(PySet(rs, "company")).v ]

(* str(r.get(field, "")) if r.get(field) else "" *)
TextOrEmpty(r, field) ==
    IF Truthy(Get(r, field)) THEN Str(PyStr(Get(r, field))) ELSE Str(<<>>)

TransportEquipmentSlots(r) ==
    [f \in Range(EquipmentFields) |-> GetOr(r, f, Str(<<>>))]

(* one entry of formatted_records *)
TransportRecord(r) ==
    [ job_order_no |-> GetOr(r, "job_order_no", Str(<<>>)),
      company      |-> GetOr(r, "company", Str(<<>>)),
      project      |-> GetOr(r, "project", Unknown),
      requester    |-> GetOr(r, "requester", Str(<<>>)),
      request_date |-> TextOrEmpty(r, "request_date"),
      supplier     |-> GetOr(r, "supplier", Unknown),
      rent_type    |-> GetOr(r, "rent_type", Str(<<"D", "a", "i", "l", "y">>)),
      total_amount |-> GetOr(r, "total_amount", Num(0)),
      actual_date  |-> TextOrEmpty(r, "actual_date"),
      duration     |-> safe_float(Get(r, "duration")),
      status       |-> GetOr(r, "status", InProgress),
      pending_with |-> GetOr(r, "pending_with", Str(<<>>)),
      remarks      |-> GetOr(r, "remarks", Str(<<>>)) ]
    @@ TransportEquipmentSlots(r)

(* the dict prepare_transportation_data returns, of the normalized records *)
transportation_data(rs) ==
    [ metadata |-> [ total_records |-> Len(rs),
                     source_sheet  |-> "Transportation_Tracking" ],
      filters  |-> TransportFilters(rs),
      records  |-> Map(rs, TransportRecord) ]

(* the exception that gets out of prepare_transportation_data, else None: of *)
(* safe_float in the amount loop, of sorted() on the raw values of a field,   *)
(* of safe_float on a duration                                                *)
TransportError(records0, normalized) ==
    FirstError(<< FirstError(Map(records0, TransportTotalAmount)),
                  SortedFields(normalized, <<"rent_type", "status", "company">>),
                  FirstError(Map(records0, LAMBDA r : safe_float(Get(r, "duration")))) >>)

(* what prepare_transportation_data returns on the list records0, which its *)
(* two in-place loops have left as normalized                               *)
TransportationOf(records0, normalized) ==
    RaiseOr(TransportError(records0, normalized), transportation_data(normalized))

prepare_transportation_data(records0) ==
    TransportationOf(records0, TransportNormalize(records0))

-----------------------------------------------------------------------------
(* sync_logistics.py: prepare_payments_data *)

(* the days added to a duration as the estimate of the payment cycle *)
PaymentCycleEstimate == 30

(* safe_float(r.get("total_amount")) > 0 *)
HasAmount(r) == DecLt(Num(0), safe_float(Get(r, "total_amount")))

(* the exception of safe_float that gets out of the filter, else None *)
PaymentsAmountError(rs) ==
    FirstError(Map(rs, LAMBDA r : safe_float(Get(r, "total_amount"))))

(* the exception that gets out of the sorted sets of payment_records, else None *)
PaymentsSortError(payment_records) ==
    FirstError(<< SortedFields(payment_records, <<"project">>),
                  SortedFields(SelectSeq(payment_records, SlaHasSupplier), <<"supplier">>) >>)

(* the exception that gets out of the filter and the sorted sets, else None *)
PaymentsFilterError(rs) ==
    IF PaymentsAmountError(rs) /= None THEN PaymentsAmountError(rs)
    ELSE PaymentsSortError(SelectSeq(rs, HasAmount))

(* a status loop whose last branch stores a third value *)
PaymentStatusOrOther(r) ==
    CASE Lower(Strip(PyStr(GetOr(r, "status", Str(<<>>))))) = <<"d", "o", "n", "e">> -> Paid
      [] Lower(Strip(PyStr(GetOr(r, "status", Str(<<>>)))))
            \in {<<"i", "n", " ", "p", "r", "o", "g", "r", "e", "s", "s">>,
                 <<"p", "e", "n", "d", "i", "n", "g">>} -> Pending
      [] OTHER -> Str(<<"O", "t", "h", "e", "r">>)

(* the value the status loop stores in r["payment_status"] *)
PaymentStatus(r) ==
    IF Lower(Strip(PyStr(GetOr(r, "status", Str(<<>>))))) = <<"d", "o", "n", "e">>
    THEN Paid
    ELSE Pending

PaymentsSetStatus(r) ==
    IF HasAmount(r) THEN SetKey(r, "payment_status", PaymentStatus(r)) ELSE r

(* the record list after prepare_payments_data: the records of payment_records *)
(* are those of the list, and the status loop writes into them                 *)
PaymentsMark(rs) ==
    IF PaymentsFilterError(rs) /= None THEN rs ELSE Map(rs, PaymentsSetStatus)

(* the exception that gets out of prepare_payments_data, else None *)
PaymentsError(rs) ==
    FirstError(<< PaymentsFilterError(rs),
                  FirstError(Map(rs, LAMBDA r : safe_float(Get(r, "duration")))) >>)

PaymentsFilters(payment_records) ==
    [ projects         |-> PySorted(PySet(payment_records, "project")).v,
      suppliers        |-> PySorted(PySet(SelectSeq(payment_records, SlaHasSupplier),
                                          "supplier")).v,
      payment_statuses |-> OrDefault(PySorted(PySet(payment_records, "payment_status")).v,
                                     <<Paid, Pending>>) ]

(* one entry of formatted_records, of a record with that amount and duration *)
PaymentsEntry(r, amount, duration) ==
    [ job_order_no         |-> GetOr(r, "job_order_no", Str(<<>>)),
      company              |-> GetOr(r, "company", Str(<<>>)),
      project              |-> GetOr(r, "project", Unknown),
      requester            |-> GetOr(r, "requester", Str(<<>>)),
      request_date         |-> TextOrEmpty(r, "request_date"),
      supplier             |-> GetOr(r, "supplier", Unknown),
      equipment_1          |-> GetOr(r, "equipment_1", Str(<<>>)),
      total_amount         |-> amount,
      payment_status       |-> GetOr(r, "payment_status", Pending),
      duration             |-> duration,
      invoice_received     |-> IF Get(r, "status") = Done THEN Yes ELSE No,
      invoice_receive_days |-> duration,
      payment_cycle_days   |-> DecAdd(duration, Num(PaymentCycleEstimate)) ]

PaymentsRecord(r) ==
    PaymentsEntry(r, safe_float(Get(r, "total_amount")), safe_float(Get(r, "duration")))

(* the dict prepare_payments_data returns, of the records with an amount *)
payments_data(payment_records) ==
    [ metadata |-> [ total_records |-> Len(payment_records),
                     source_sheet  |-> "Transportation_Tracking" ],
      filters  |-> PaymentsFilters(payment_records),
      records  |-> Map(payment_records, PaymentsRecord) ]

(* what prepare_payments_data returns on the list rs, which its status loop *)
(* has left as marked                                                      *)
PaymentsOf(rs, marked) ==
    RaiseOr(PaymentsError(rs), payments_data(SelectSeq(marked, HasAmount)))

prepare_payments_data(rs) == PaymentsOf(rs, PaymentsMark(rs))

-----------------------------------------------------------------------------
(* process_sheet of the four scripts that read a sheet *)

(* JOB_ORDERS_COLUMNS of sync_smartsheet.py and of api/smartsheet.py *)
JOB_ORDERS_COLUMNS ==
    ("#" :> "id") @@ ("Job Order No." :> "job_order_no")
    @@ ("Job Order Date" :> "job_order_date") @@ ("Requesting Project" :> "project")
    @@ ("Requester Name" :> "requester") @@ ("Type of Equipment" :> "equipment_type")
    @@ ("Requested Job Date" :> "requested_date")
    @@ ("Job Performed By Logistics" :> "performed")
    @@ ("Job Completion Date" :> "completion_date")
    @@ ("Completion Time (Days)" :> "completion_days") @@ ("Supplier" :> "supplier")
    @@ ("Cost (Excluding VAT)" :> "cost") @@ ("Invoice Applicable" :> "invoice_applicable")
    @@ ("Invoice Received" :> "invoice_received")
    @@ ("Invoice Receive Time (Days)" :> "invoice_receive_days")
    @@ ("Payment Status" :> "payment_status")
    @@ ("Payment Cycle (Days)" :> "payment_cycle_days") @@ ("Comments" :> "comments")

(* COLUMN_MAPPINGS of sync_sla.py and of sync_logistics.py *)
COLUMN_MAPPINGS ==
    ("#" :> "serial_no") @@ ("Job Order NO." :> "job_order_no") @@ ("Company" :> "company")
    @@ ("Project Name" :> "project") @@ ("Rqstr Name" :> "requester")
    @@ ("Rqst Date" :> "request_date") @@ ("supplier" :> "supplier")
    @@ ("EQUIPMENT 1" :> "equipment_1") @@ ("price1" :> "price_1")
    @@ ("EQUIPMENT 2" :> "equipment_2") @@ ("Price2" :> "price_2")
    @@ ("EQUIPMENT 3" :> "equipment_3") @@ ("Price3" :> "price_3")
    @@ ("EQUIPMENT 4" :> "equipment_4") @@ ("Price4" :> "price_4")
    @@ ("EQUIPMENT 5" :> "equipment_5") @@ ("price5" :> "price_5")
    @@ ("Type of Rent" :> "rent_type") @@ ("Total Amount" :> "total_amount")
    @@ ("Act Date2" :> "actual_date") @@ ("Duration" :> "duration")
    @@ ("Status" :> "status") @@ ("Pending with" :> "pending_with")
    @@ ("Remarks" :> "remarks")

JobOrderScripts == {"sync_smartsheet", "api"}

TransportScripts == {"sync_sla", "sync_logistics"}

(* the catalog each script hands to, or uses in, its process_sheet *)
Catalog(script) ==
    IF script \in JobOrderScripts THEN JOB_ORDERS_COLUMNS ELSE COLUMN_MAPPINGS

(* the fields its process_sheet tests before it appends the record *)
KeyFields(script) ==
    IF script \in JobOrderScripts THEN {"job_order_no"} ELSE {"job_order_no", "project"}

NoDict == <<>>

(* the test of the title left out: every column is mapped, under its title *)
MapEveryColumn(col_map, col, column_mappings) == SetKey(col_map, col.id, col.title)

(* if col['title'] in column_mappings: col_map[col['id']] = column_mappings[col['title']] *)
MapColumn(col_map, col, column_mappings) ==
    IF col.title \in DOMAIN column_mappings
    THEN SetKey(col_map, col.id, column_mappings[col.title])
    ELSE col_map

(* col_map after the loop over sheet_data['columns'] *)
RECURSIVE ColMap(_, _)
ColMap(columns, column_mappings) ==
    IF columns = <<>> THEN NoDict
    ELSE MapColumn(ColMap(SubSeq(columns, 1, Len(columns) - 1), column_mappings),
                   columns[Len(columns)], column_mappings)

(* cell.get('value') or cell.get('displayValue') *)
CellValue(cell) == IF Truthy(cell.value) THEN cell.value ELSE cell.displayValue

(* if col_id in col_map and value is not None: order[col_map[col_id]] = value *)
StoreCell(order, col_map, cell) ==
    IF cell.columnId \in DOMAIN col_map /\ CellValue(cell) /= None
    THEN SetKey(order, col_map[cell.columnId], CellValue(cell))
    ELSE order

(* the dict built from the cells of one row *)
RECURSIVE RowRecord(_, _)
RowRecord(cells, col_map) ==
    IF cells = <<>> THEN NoDict
    ELSE StoreCell(RowRecord(SubSeq(cells, 1, Len(cells) - 1), col_map), col_map,
                   cells[Len(cells)])

(* the test of the key field left out: every row gives a record *)
AnyRecord(order, keys) == TRUE

(* order.get('job_order_no'), or record.get("job_order_no") or record.get("project") *)
HasKeyField(order, keys) == \E k \in keys : Truthy(Get(order, k))

RowRecords(rows, col_map) == [i \in DOMAIN rows |-> RowRecord(rows[i], col_map)]

KeptRecords(orders, keys) == SelectSeq(orders, LAMBDA order : HasKeyField(order, keys))

process_sheet(sheet_data, column_mappings, keys) ==
    KeptRecords(RowRecords(sheet_data.rows, ColMap(sheet_data.columns, column_mappings)),
                keys)

-----------------------------------------------------------------------------
(* Bounded inputs *)

(* records appended to a base list *)
MaxRecords == 2

(* distinct category keys K1..Kn of the large base list *)
NBallast == 20

(* the longest record list of which every permutation is tried *)
MaxPermuted == 4

S(chars) == Str(chars)

KeyStr(i) == Str(<<"K">> \o IntDigits(i))

(* a dict from the pairs <<key, value>>; a None value leaves the key out *)
Dict(pairs) ==
    [k \in {pairs[i][1] : i \in {j \in DOMAIN pairs : pairs[j][2] /= None}} |->
        pairs[CHOOSE i \in DOMAIN pairs : pairs[i][1] = k][2]]

JobNo == S(<<"J", "O", "-", "1">>)

Rejected == S(<<"R", "e", "j", "e", "c", "t", "e", "d">>)

Date1 == S(<<"2", "0", "2", "5", "-", "0", "1", "-", "1", "5">>)

Date2 == S(<<"2", "0", "2", "5", "-", "0", "1", "-", "2", "0">>)

Date3 == S(<<"2", "0", "2", "4", "-", "1", "2", "-", "0", "1">>)

DateSlash == S(<<"1", "2", "/", "0", "5", "/", "2", "0", "2", "5">>)

Cost1200 == S(<<"1", ",", "2", "0", "0", " ", "S", "A", "R">>)

NotAvailable == S(<<"N", "/", "A">>)

(* amounts whose sum 12.745 is no double: 5.7, 1.998, 5.047 *)
Amount1 == Dec(57, 1)

Amount2 == Dec(1998, 3)

Amount3 == Dec(5047, 3)

FloatOrder(v) ==
    Dict(<< <<"job_order_no", JobNo>>, <<"cost", v>>, <<"completion_days", v>>,
            <<"invoice_applicable", Yes>> >>)

(* the same order, of the project B *)
FloatProjectOrder(v) ==
    Dict(<< <<"job_order_no", JobNo>>, <<"project", S(<<"B">>)>>, <<"cost", v>>,
            <<"completion_days", v>>, <<"invoice_applicable", Yes>> >>)

FloatRecord(v) ==
    Dict(<< <<"job_order_no", JobNo>>, <<"total_amount", v>>, <<"duration", v>> >>)

DurationPool ==
    { None, Num(0), Num(0 - 1), Num(2), Num(3), Num(4),
      S(<<"5">>), NotAvailable, S(<<"2", ".", "5">>) }

DatePool == { None, Date1, Date2, Date3, DateSlash, Num(45000) }

(* durations 10, 9, .., 1: the list 1..10 out of order *)
DurationList(field) ==
    [i \in 1..10 |-> Dict(<< <<"job_order_no", JobNo>>, <<field, Num(11 - i)>>,
                             <<"invoice_applicable", Yes>> >>)]

StatusOrder(performed, completion_date, invoice_applicable, payment_status) ==
    Dict(<< <<"job_order_no", JobNo>>, <<"performed", performed>>,
            <<"completion_date", completion_date>>,
            <<"invoice_applicable", invoice_applicable>>,
            <<"payment_status", payment_status>> >>)

CategoryOrder(supplier, project, cost) ==
    Dict(<< <<"job_order_no", JobNo>>, <<"supplier", supplier>>,
            <<"equipment_type", supplier>>, <<"project", project>>, <<"cost", cost>>,
            <<"invoice_applicable", Yes>> >>)

DatedOrder(job_order_date, cost, invoice_applicable) ==
    Dict(<< <<"job_order_no", JobNo>>, <<"job_order_date", job_order_date>>,
            <<"cost", cost>>, <<"invoice_applicable", invoice_applicable>> >>)

(* job orders of sync_smartsheet.py, as process_sheet builds them *)
KpiPool(s) ==
    CASE s = "status" ->
           { StatusOrder(q[1], q[2], q[3], q[4]) :
               q \in { <<Yes, Date1, Yes, Paid>>, <<Yes, None, Yes, Rejected>>,
                       <<Yes, None, Yes, Pending>>, <<No, Date1, None, Paid>>,
                       <<No, None, Yes, None>>, <<None, Date1, Yes, Paid>> } }
      [] s = "duration" ->
           { Dict(<< <<"job_order_no", JobNo>>, <<"completion_days", d>>,
                     <<"invoice_applicable", Yes>> >>) : d \in DurationPool }
      [] s = "topn" ->
           { CategoryOrder(q[1], q[2], q[3]) :
               q \in { <<None, None, Num(2)>>, <<None, KeyStr(NBallast + 1), Cost1200>>,
                       <<KeyStr(NBallast + 1), KeyStr(NBallast + 1), Num(2)>>,
                       <<KeyStr(NBallast + 1), None, Cost1200>>,
                       <<KeyStr(NBallast), KeyStr(NBallast + 1), Num(2)>>,
                       <<S(<<>>), None, Cost1200>> } }
      [] s = "trend" ->
           { DatedOrder(q[1], q[2], q[3]) :
               q \in { <<Date1, Num(0 - 5), Yes>>, <<Date1, Cost1200, None>>,
                       <<Date2, Cost1200, Yes>>, <<Date3, Num(0 - 5), Yes>>,
                       <<Date3, Cost1200, Yes>>, <<DateSlash, Cost1200, Yes>>,
                       <<Num(45000), Num(0 - 5), Yes>>, <<None, Cost1200, Yes>>,
                       <<S(<<"2", "0", "2", "5">>), Cost1200, Yes>>,
                       <<Date1, NotAvailable, Yes>> } }
      [] s = "float" -> { FloatOrder(Amount2), FloatOrder(Amount3),
                          FloatProjectOrder(Amount2) }

(* the supplier scenario of the specification *)
SupplierExample ==
    << Dict(<< <<"job_order_no", JobNo>>, <<"supplier", S(<<"A">>)>>,
               <<"cost", Cost1200>>, <<"invoice_applicable", Yes>> >>),
       Dict(<< <<"job_order_no", JobNo>>, <<"supplier", S(<<"B">>)>>,
               <<"cost", Num(100)>>, <<"invoice_applicable", Yes>> >>),
       Dict(<< <<"job_order_no", JobNo>>, <<"supplier", S(<<"A">>)>>,
               <<"cost", Num(300)>>, <<"invoice_applicable", Yes>> >>) >>

(* one order per key K1..Kn, costs 1, 2, 3, 0, 1, .. *)
KpiBallast ==
    [i \in 1..NBallast |->
        Dict(<< <<"job_order_no", JobNo>>, <<"supplier", KeyStr(i)>>,
                <<"equipment_type", KeyStr(i)>>, <<"project", KeyStr(i)>>,
                <<"cost", Num(i % 4)>>, <<"invoice_applicable", Yes>> >>)]

(* as many suppliers as the supplier cap admits *)
KpiFullCap == SubSeq(KpiBallast, 1, SupplierCap)

KpiBase(s) ==
    CASE s = "duration" -> { <<>>, DurationList("completion_days") }
      [] s = "topn"     -> { <<>>, SupplierExample, KpiFullCap, KpiBallast }
      [] s = "float"    -> { <<FloatOrder(Amount1)>> }
      [] OTHER          -> { <<>> }

KpiScenarios == {"status", "duration", "topn", "trend", "float"}

(* transportation records of sync_sla.py, as process_sheet builds them *)
StatusPool ==
    { None, S(<<"D", "o", "n", "e">>), S(<<" ", "C", "O", "M", "P", "L", "E", "T", "E", "D", " ">>), S(<<"P", "e", "n", "d", "i", "n", "g">>), S(<<"u", "n", "d", "e", "r", " ", "p", "r", "o", "c", "e", "s", "s">>),
      S(<<"o", "n", " ", "h", "o", "l", "d">>), S(<<>>), S(<<" ", " ">>), Num(5),
      S(<<"C", "o", "m", "p", "l", "e", "t", "e">>),
      S(<<"I", "n", " ", "P", "r", "o", "g", "r", "e", "s", "s">>),
      S(<<"I", "n", "P", "r", "o", "g", "r", "e", "s", "s", " ">>),
      S(<<"W", "a", "i", "t", "i", "n", "g", " ", "f", "o", "r", " ",
          "Q", "u", "o", "t", "a", "t", "i", "o", "n">>),
      S(<<"c", "a", "n", "c", "e", "l", "l", "e", "d">>) }

Nesma == S(<<"N", "E", "S", "M", "A">>)

CategoryRecord(supplier, equipment_1, total_amount) ==
    Dict(<< <<"job_order_no", JobNo>>, <<"supplier", supplier>>, <<"project", supplier>>,
            <<"equipment_1", equipment_1>>, <<"price_1", Num(2)>>,
            <<"equipment_2", KeyStr(NBallast)>>, <<"price_2", Cost1200>>,
            <<"total_amount", total_amount>> >>)

SlaPool(s) ==
    CASE s = "status" ->
           { Dict(<< <<"job_order_no", JobNo>>, <<"status", st>>,
                     <<"company", IF st = None THEN None ELSE Nesma>> >>) :
               st \in StatusPool }
      [] s = "duration" ->
           { Dict(<< <<"job_order_no", JobNo>>, <<"duration", d>> >>) :
               d \in DurationPool \cup {S(<<"5", " ", "S", "A", "R", " ">>)} }
      [] s = "topn" ->
           { CategoryRecord(q[1], q[2], q[3]) :
               q \in { <<None, None, Cost1200>>,
                       <<KeyStr(NBallast + 1), KeyStr(NBallast + 1), None>>,
                       <<KeyStr(NBallast + 1), None, Cost1200>>,
                       <<S(<<"2", "0", "2", "4", "-", "0", "7">>), KeyStr(NBallast + 1), None>>,
                       <<None, Num(7), None>>,
                       <<KeyStr(NBallast + 1), Num(7), Cost1200>> } }
      [] s = "trend" ->
           { Dict(<< <<"job_order_no", JobNo>>, <<"request_date", d>>,
                     <<"status", st>>, <<"total_amount", Num(100)>> >>) :
               d \in DatePool, st \in {S(<<"D", "o", "n", "e">>), S(<<"P", "e", "n", "d", "i", "n", "g">>)} }
      [] s = "float" -> { FloatRecord(Amount2), FloatRecord(Amount3) }

(* one record per key K1..Kn, slot prices 1, 2, 3, 0, 1, .. *)
SlaBallast ==
    [i \in 1..NBallast |->
        Dict(<< <<"job_order_no", JobNo>>, <<"supplier", KeyStr(i)>>,
                <<"project", KeyStr(i)>>, <<"equipment_1", KeyStr(i)>>,
                <<"price_1", Num(i % 4)>> >>)]

SlaBase(s) ==
    CASE s = "duration" -> { <<>>, DurationList("duration") }
      [] s = "topn"     -> { <<>>, SlaBallast }
      [] s = "float"    -> { <<FloatRecord(Amount1)>> }
      [] OTHER          -> { <<>> }

SlaScenarios == {"status", "duration", "topn", "trend", "float"}

(* purchase requests of sync_smartsheet_data.py, as process_pr_data builds them *)
PrRecord(status, submission_date) ==
    [ status          |-> status,
      submission_date |-> submission_date,
      approved_date   |-> S(<<"2", "0", "2", "5", "-", "0", "3", "-", "0", "1">>),
      po_num          |-> IF status = APPROVED THEN Num(7) ELSE None,
      pr_to_po_days   |-> IF submission_date = Date1 THEN Num(45) ELSE Num(10),
      project         |-> S(<<"P">>),
      vendor          |-> IF status = REJECTED THEN S(<<>>) ELSE S(<<"V">>) ]

PrPool ==
    { PrRecord(q[1], q[2]) :
        q \in { <<APPROVED, Date1>>, <<RETURNED, Date1>>, <<REJECTED, Date1>>,
                <<APPROVED, S(<<"2", "0", "2", "5", "-", "0", "2", "-", "0", "3">>)>>,
                <<RETURNED, S(<<"2", "0", "2", "5", "-", "0", "2", "-", "0", "3">>)>>,
                <<REJECTED, S(<<"2", "0", "2", "5", "-", "0", "2", "-", "0", "3">>)>>,
                <<APPROVED, None>>, <<RETURNED, Date3>>,
                <<REJECTED, S(<<"1", "5", "/", "0", "2", "/", "2", "0", "2", "5">>)>> } }

PrBase == { <<>>, <<PrRecord(APPROVED, Date1)>> }

Pool(p, s) ==
    CASE p = "kpis" -> KpiPool(s)
      [] p = "sla"  -> SlaPool(s)
      [] p = "pr"   -> PrPool
      [] OTHER      -> {}

(* a sheet as get_sheet_data returns it: columns with id and title, rows of cells *)
Column(id, title) == [id |-> id, title |-> title]

Cell(columnId, value, displayValue) ==
    [columnId |-> columnId, value |-> value, displayValue |-> displayValue]

(* the live columns of the job orders sheet and of the transportation sheet, each *)
(* with a column the scripts do not track and a title in another spelling         *)
JobOrdersLayout ==
    << Column(1, "Job Order No."), Column(2, "Requesting Project"),
       Column(3, "Payment Status"), Column(4, "Cost (Excluding VAT)"),
       Column(5, "Completion Time (Days)"), Column(6, "Notes"),
       Column(7, "job order no.") >>

TransportLayout ==
    << Column(1, "Job Order NO."), Column(2, "Project Name"), Column(3, "Status"),
       Column(4, "Total Amount"), Column(5, "price1"), Column(6, "Notes"),
       Column(7, "price2") >>

SheetLayouts == {JobOrdersLayout, TransportLayout}

UnderProcess ==
    S(<<"u", "n", "d", "e", "r", " ", "p", "r", "o", "c", "e", "s", "s">>)

OnHold == S(<<"o", "n", " ", "h", "o", "l", "d">>)

Completed == S(<<" ", "C", "o", "m", "p", "l", "e", "t", "e", "d", " ">>)

Cancelled == S(<<"c", "a", "n", "c", "e", "l", "l", "e", "d">>)

ThousandSar == S(<<"1", ",", "0", "0", "0", " ", "S", "A", "R">>)

JobCell == Cell(1, JobNo, None)

(* rows of cells: structured and display values, present, null and falsy; cells of *)
(* untracked and unknown columns; two cells of one column; no cell at all; numbers *)
(* in columns of text; a string with a surrogate; an int beyond the doubles        *)
RowPool ==
    { <<Cell(1, JobNo, S(<<"1">>))>>,
      <<Cell(1, None, JobNo)>>,
      <<Cell(1, S(<<>>), None), Cell(2, S(<<"P">>), None)>>,
      <<Cell(1, None, S(<<>>)), Cell(3, Pending, None)>>,
      <<JobCell, Cell(4, Num(0), S(<<"0">>)), Cell(5, Num(5), None)>>,
      <<JobCell, Cell(4, Num(0), None), Cell(5, Num(5), None)>>,
      <<JobCell, Cell(4, None, S(<<>>)), Cell(5, Num(5), None)>>,
      <<JobCell, Cell(4, ThousandSar, None), Cell(5, Num(5), None)>>,
      <<JobCell, Cell(3, Bool(FALSE), None), Cell(5, S(<<>>), S(<<"x">>))>>,
      <<Cell(6, S(<<"n">>), None), Cell(0, JobNo, None), Cell(7, JobNo, None)>>,
      <<>>,
      <<JobCell, Cell(1, None, None), Cell(3, UnderProcess, None)>>,
      <<JobCell, Cell(1, S(<<"J", "O", "-", "2">>), None), Cell(3, OnHold, None)>>,
      <<JobCell, Cell(3, Completed, None), Cell(4, Dec(125, 1), None)>>,
      <<Cell(2, S(<<"P">>), None), Cell(3, Cancelled, None)>>,
      <<JobCell, Cell(3, None, S(<<"D", "o", "n", "e">>))>>,
      <<Cell(2, Num(7), None), Cell(5, Num(5), None)>>,
      <<JobCell, Cell(2, S(<<"P">>), None), Cell(5, Num(5), None)>>,
      <<JobCell, Cell(3, Num(5), None)>>,
      <<Cell(1, S(<<"J", "O", LoneSurrogate>>), None), Cell(5, Num(5), None)>>,
      <<JobCell, Cell(4, BigInt(FALSE, BigOfInt(1), 1024), None)>>,
      <<JobCell, Cell(3, Cancelled, None), Cell(5, Num(5), None)>> }

SheetScripts == JobOrderScripts \cup TransportScripts

(* the longest string of the characters below that is normalized *)
MaxChars == 3

NormChars == <<"1", "5", ".", "-", " ", ",", "s">>

CharStrings(n) == UNION {[1..k -> Range(NormChars)] : k \in 0..n}

(* cell values handed to the normalizers: null, numbers, booleans, ints at the *)
(* edge of the doubles (2^1023, 2^1024, -2^1030, 3 * 2^60), short strings and  *)
(* the strings of the sheets                                                   *)
NormInputs ==
    { None, Num(0), Num(7), Num(0 - 3), Dec(125, 1), Bool(TRUE), Bool(FALSE),
      BigInt(FALSE, BigOfInt(1), 1023), BigInt(FALSE, BigOfInt(1), 1024),
      BigInt(TRUE, BigOfInt(1), 1030), BigInt(FALSE, BigOfInt(3), 60) }
    \cup {S(chars) : chars \in CharStrings(MaxChars)}
    \cup { NotAvailable, ThousandSar, S(<<"5", " ", "s", "a", "r">>),
           S(<<"1", "2", ".", "5", "0", " ", "U", "S", "D">>),
           S(<<"1", ".", "2", ".", "3">>), S(<<"5", " ", "d", "a", "y", "s">>),
           S(<<"S", "A", "R", "7", "5">>), S(<<"1", "e", "2">>) }

EmptySheets == {[columns |-> layout, rows |-> <<>>] : layout \in SheetLayouts}

(* what each script starts from *)
InitialInputs(p, rs) ==
    CASE p = "sheet" -> EmptySheets
      [] p = "norm"  -> NormInputs
      [] OTHER       -> {rs}

-----------------------------------------------------------------------------
(* The scripts *)

NoResult == [none |-> TRUE]

(* where a script starts: the scripts from the sheet on at the fetch of the sheet, *)
(* the aggregations at their record list                                          *)
Start(p) == IF p \in {"sheet", "pr"} THEN "start" ELSE "input"

(* the ways the fetch of the sheet fails: a status that raise_for_status or   *)
(* urlopen raises as an HTTPError, or no connection                           *)
HTTPError(code) == [t |-> "raise", e |-> "HTTPError", code |-> code]

ConnectionError == [t |-> "raise", e |-> "ConnectionError"]

FetchErrors == {HTTPError(401), HTTPError(404), HTTPError(503), ConnectionError}

(* what encode('utf-8') and a write to a file opened as UTF-8 do with a surrogate *)
UnicodeEncodeError == [t |-> "raise", e |-> "UnicodeEncodeError"]

(* the orders written out raw: orders[:200] *)
OrdersCap == 200

(* the str values of a list of dicts *)
RecordTexts(rs) ==
    UNION {{rs[i][f].s : f \in {g \in DOMAIN rs[i] : rs[i][g].t = "str"}} : i \in DOMAIN rs}

(* the str keys of the distributions of a report, and the months of its trend *)
ReportTexts(r) ==
    UNION {{r[d][i].k.s : i \in {j \in DOMAIN r[d] : "k" \in DOMAIN r[d][j]
                                                       /\ r[d][j].k.t = "str"}}
           \cup {r[d][i].month : i \in {j \in DOMAIN r[d] : "month" \in DOMAIN r[d][j]}}
           : d \in DOMAIN r \ {"summary", "status", "payment_status"}}

(* json.dumps(..., ensure_ascii=False) leaves the characters as they are, and *)
(* the text encodes unless one of them is a surrogate                         *)
Encodes(texts) == \A chars \in texts : LoneSurrogate \notin Range(chars)

(* a file opened for writing: whole, or cut short by the exception of a write *)
Written(name, whole) == name :> (IF whole THEN "complete" ELSE "partial")

(* an except clause that goes on as if the step had succeeded *)
SwallowedFailure(err, at) ==
    /\ outcome' = CASE scen = "sync_smartsheet" -> [value |-> Num(0)]
                     [] scen = "api"             -> [value |-> None]
                     [] OTHER                    -> [value |-> Bool(TRUE)]
    /\ sent' = IF scen = "api" THEN Append(sent, 200) ELSE sent
    /\ pc' = at

(* what an entry point does with an exception that gets out of a step: main of *)
(* sync_smartsheet.py lets it out; main of sync_sla.py, sync_logistics.py and  *)
(* sync_smartsheet_data.py return False; do_GET sends the status of an         *)
(* HTTPError, and 500 for any other exception                                  *)
Fail(err, at) ==
    /\ outcome' = CASE scen = "sync_smartsheet" -> Raise(err)
                     [] scen = "api"             -> [value |-> None]
                     [] OTHER                    -> [value |-> Bool(FALSE)]
    /\ sent' = IF scen = "api"
               THEN Append(sent, IF err.e = "HTTPError" THEN err.code ELSE 500)
               ELSE sent
    /\ pc' = at

(* a step that went through *)
Pass(at) ==
    /\ pc' = at
    /\ UNCHANGED <<sent, outcome>>

(* the exception of the first of the results that raised *)
Raised(results) == [e |-> results[CHOOSE f \in DOMAIN results : ~Returned(results[f])].raised]

(* the step of main that follows an aggregation *)
After(results, at) ==
    IF \E f \in DOMAIN results : ~Returned(results[f])
    THEN Fail(Raised(results), "failed")
    ELSE Pass(at)

(* sla_data = calculate_sla_kpis(orders); payments_data = calculate_payments_kpis(orders) *)
KpisAfter(sla_data, orders) ==
    IF ~Returned(sla_data) THEN [sla |-> sla_data]
    ELSE [sla |-> sla_data, payments |-> calculate_payments_kpis(orders)]

KpisOf(orders) == KpisAfter(calculate_sla_kpis(orders), orders)

Init ==
    /\ \/ /\ prog = "kpis"
          /\ scen \in KpiScenarios
          /\ records \in KpiBase(scen)
       \/ /\ prog = "sla"
          /\ scen \in SlaScenarios
          /\ records \in SlaBase(scen)
       \/ /\ prog = "pr"
          /\ scen = "stats"
          /\ records \in PrBase
       \/ /\ prog = "sheet"
          /\ scen \in SheetScripts
          /\ records = <<>>
       \/ /\ prog = "norm"
          /\ scen = "value"
          /\ records = <<>>
    /\ pc = Start(prog)
    /\ added = 0
    /\ input \in InitialInputs(prog, records)
    /\ calc = NoResult
    /\ report = NoResult
    /\ files = NoDict
    /\ sent = <<>>
    /\ outcome = NoResult

(* one more row of the sheet: a record process_sheet appends *)
AddRecord ==
    /\ pc = "input"
    /\ added < MaxRecords
    /\ \E r \in Pool(prog, scen) : records' = Append(records, r)
    /\ input' = records'
    /\ added' = added + 1
    /\ UNCHANGED <<prog, scen, pc, calc, report>>
    /\ UNCHANGED outputs

(* sync_smartsheet.py main: sla_data = calculate_sla_kpis(orders) *)
RunSlaKpis ==
    /\ prog = "kpis"
    /\ pc = "input"
    /\ calc' = [sla |-> sla_kpis_locals(records)]
    /\ report' = [sla |-> sla_kpis_result(calc'.sla)]
    /\ pc' = "sla_done"
    /\ UNCHANGED <<prog, scen, added, records, input>>
    /\ UNCHANGED outputs

(* sync_smartsheet.py main: payments_data = calculate_payments_kpis(orders) *)
RunPaymentsKpis ==
    /\ prog = "kpis"
    /\ pc = "sla_done"
    /\ calc' = [sla |-> calc.sla, payments |-> payments_kpis_locals(records)]
    /\ report' = [sla |-> report.sla, payments |-> payments_kpis_result(calc'.payments)]
    /\ pc' = "done"
    /\ UNCHANGED <<prog, scen, added, records, input>>
    /\ UNCHANGED outputs

(* sync_sla.py main: sla_data = calculate_sla_metrics(records) *)
RunSlaMetrics ==
    /\ prog = "sla"
    /\ pc = "input"
    /\ records' = SlaNormalize(records)
    /\ calc' = [metrics |-> sla_metrics_locals(records')]
    /\ report' = [metrics |-> sla_metrics_result(calc'.metrics)]
    /\ pc' = "done"
    /\ UNCHANGED <<prog, scen, added, input>>
    /\ UNCHANGED outputs

(* sync_smartsheet_data.py main: stats = calculate_statistics(all_prs) *)
RunStatistics ==
    /\ prog = "pr"
    /\ pc = "input"
    /\ report' = [stats |-> calculate_statistics(records)]
    /\ pc' = "done"
    /\ UNCHANGED <<prog, scen, added, records, input, calc>>
    /\ UNCHANGED outputs

(* sync_smartsheet.py main and do_GET: if not SMARTSHEET_TOKEN *)
MissingToken ==
    /\ prog = "sheet"
    /\ scen \in JobOrderScripts
    /\ pc = "start"
    /\ outcome' = IF scen = "api" THEN [value |-> None] ELSE [value |-> Num(1)]
    /\ sent' = IF scen = "api" THEN Append(sent, 500) ELSE sent
    /\ pc' = "no_token"
    /\ UNCHANGED <<prog, scen, added, records, input, calc, report, files>>

(* main: sheet_data = get_sheet_data(...), raw_prs = get_pr_data_from_sheet(...) *)
GetSheetData ==
    /\ pc = "start"
    /\ \/ Pass("input")
       \/ \E err \in FetchErrors : Fail(err, "fetch_failed")
    /\ UNCHANGED <<prog, scen, added, records, input, calc, report, files>>

(* one more row of the sheet get_sheet_data returns *)
AddRow ==
    /\ prog = "sheet"
    /\ pc = "input"
    /\ added < MaxRecords
    /\ \E row \in RowPool : input' = [input EXCEPT !.rows = Append(@, row)]
    /\ added' = added + 1
    /\ UNCHANGED <<prog, scen, pc, records, calc, report>>
    /\ UNCHANGED outputs

(* main of each script: orders = process_sheet(sheet_data, JOB_ORDERS_COLUMNS), *)
(* records = process_sheet(sheet_data)                                          *)
ProcessSheet ==
    /\ prog = "sheet"
    /\ pc = "input"
    /\ calc' = [ col_map |-> ColMap(input.columns, Catalog(scen)),
                 built |-> RowRecords(input.rows, ColMap(input.columns, Catalog(scen))) ]
    /\ records' = process_sheet(input, Catalog(scen), KeyFields(scen))
    /\ pc' = "processed"
    /\ UNCHANGED <<prog, scen, added, input, report>>
    /\ UNCHANGED outputs

(* the normalizers applied to one cell value *)
NormalizeValue ==
    /\ prog = "norm"
    /\ pc = "input"
    /\ report' = [ parse_cost |-> parse_cost(input),
                   parse_days |-> parse_days(input),
                   safe_float |-> safe_float(input) ]
    /\ pc' = "done"
    /\ UNCHANGED <<prog, scen, added, records, input, calc>>
    /\ UNCHANGED outputs

(* sync_logistics.py main: transportation_data = prepare_transportation_data(records) *)
PrepareTransportation ==
    /\ prog = "sheet"
    /\ scen = "sync_logistics"
    /\ pc = "processed"
    /\ records' = TransportNormalize(records)
    /\ calc' = [col_map |-> calc.col_map, built |-> calc.built, processed |-> records]
    /\ report' = [transportation |-> TransportationOf(records, records')]
    /\ After(report', "transported")
    /\ UNCHANGED <<prog, scen, added, input, files>>

(* sync_logistics.py main: json.dump(transportation_data, f, ...) *)
SaveTransportation ==
    /\ prog = "sheet"
    /\ scen = "sync_logistics"
    /\ pc = "transported"
    /\ files' = Written("transportation_full_data.json",
                        Encodes(RecordTexts(report.transportation.records)))
    /\ IF Encodes(RecordTexts(report.transportation.records))
       THEN Pass("saved")
       ELSE Fail(UnicodeEncodeError, "failed")
    /\ UNCHANGED <<prog, scen, added, records, input, calc, report>>

(* sync_logistics.py main: payments_data = prepare_payments_data(records) *)
PreparePayments ==
    /\ prog = "sheet"
    /\ scen = "sync_logistics"
    /\ pc = "saved"
    /\ records' = PaymentsMark(records)
    /\ calc' = [transported |-> records] @@ calc
    /\ report' = [ transportation |-> report.transportation,
                   payments |-> PaymentsOf(records, records') ]
    /\ After(report', "prepared")
    /\ UNCHANGED <<prog, scen, added, input, files>>

(* sync_logistics.py main: json.dump(payments_data, f, ...); return True *)
SavePayments ==
    /\ prog = "sheet"
    /\ scen = "sync_logistics"
    /\ pc = "prepared"
    /\ files' = files @@ Written("payments_full_data.json",
                                 Encodes(RecordTexts(report.payments.records)))
    /\ IF Encodes(RecordTexts(report.payments.records))
       THEN /\ outcome' = [value |-> Bool(TRUE)]
            /\ pc' = "done"
            /\ sent' = sent
       ELSE Fail(UnicodeEncodeError, "failed")
    /\ UNCHANGED <<prog, scen, added, records, input, calc, report>>

(* sync_smartsheet.py main and do_GET: the two KPI computations on the orders *)
CalculateKpis ==
    /\ prog = "sheet"
    /\ scen \in JobOrderScripts
    /\ pc = "processed"
    /\ report' = KpisOf(records)
    /\ After(report', "calculated")
    /\ UNCHANGED <<prog, scen, added, records, input, calc, files>>

(* what data.js and the response body hold: the reports and orders[:200] *)
KpisTexts(reports, orders) ==
    RecordTexts(Take(orders, OrdersCap))
        \cup ReportTexts(reports.sla) \cup ReportTexts(reports.payments)

(* sync_smartsheet.py main: write_data_js(...); return 0 *)
WriteDataJs ==
    /\ prog = "sheet"
    /\ scen = "sync_smartsheet"
    /\ pc = "calculated"
    /\ files' = Written("data.js", Encodes(KpisTexts(report, records)))
    /\ IF Encodes(KpisTexts(report, records))
       THEN /\ outcome' = [value |-> Num(0)]
            /\ pc' = "done"
            /\ sent' = sent
       ELSE Fail(UnicodeEncodeError, "failed")
    /\ UNCHANGED <<prog, scen, added, records, input, calc, report>>

(* do_GET: send_response(200), the headers, and the body encoded as UTF-8; the *)
(* exception of the encoding is caught by the handler's own except clause      *)
Respond ==
    /\ prog = "sheet"
    /\ scen = "api"
    /\ pc = "calculated"
    /\ sent' = IF Encodes(KpisTexts(report, records))
               THEN Append(sent, 200)
               ELSE Append(Append(sent, 200), 500)
    /\ outcome' = [value |-> None]
    /\ pc' = IF Encodes(KpisTexts(report, records)) THEN "done" ELSE "failed"
    /\ UNCHANGED <<prog, scen, added, records, input, calc, report, files>>

(* sync_sla.py main: sla_data = calculate_sla_metrics(records) *)
CalculateSlaMetrics ==
    /\ prog = "sheet"
    /\ scen = "sync_sla"
    /\ pc = "processed"
    /\ records' = SlaNormalize(records)
    /\ calc' = [col_map |-> calc.col_map, built |-> calc.built, processed |-> records]
    /\ report' = [metrics |-> SlaMetricsOf(records, records')]
    /\ After(report', "calculated")
    /\ UNCHANGED <<prog, scen, added, input, files>>

(* sync_sla.py main: json.dump(output_data, f, ...); return True *)
SaveSlaData ==
    /\ prog = "sheet"
    /\ scen = "sync_sla"
    /\ pc = "calculated"
    /\ files' = Written("data/sla_data.json", Encodes(ReportTexts(report.metrics)))
    /\ IF Encodes(ReportTexts(report.metrics))
       THEN /\ outcome' = [value |-> Bool(TRUE)]
            /\ pc' = "done"
            /\ sent' = sent
       ELSE Fail(UnicodeEncodeError, "failed")
    /\ UNCHANGED <<prog, scen, added, records, input, calc, report>>

(* sync_smartsheet_data.py main: json.dump(output_data, f, ...); return True *)
SavePrData ==
    /\ prog = "pr"
    /\ pc = "done"
    /\ files' = Written("data/pr_data.json", Encodes(RecordTexts(records)))
    /\ IF Encodes(RecordTexts(records))
       THEN /\ outcome' = [value |-> Bool(TRUE)]
            /\ pc' = "saved"
            /\ sent' = sent
       ELSE Fail(UnicodeEncodeError, "failed")
    /\ UNCHANGED <<prog, scen, added, records, input, calc, report>>

Next ==
    \/ AddRecord
    \/ MissingToken
    \/ GetSheetData
    \/ CalculateKpis
    \/ WriteDataJs
    \/ Respond
    \/ CalculateSlaMetrics
    \/ SaveSlaData
    \/ SaveTransportation
    \/ PreparePayments
    \/ SavePayments
    \/ SavePrData
    \/ PrepareTransportation
    \/ NormalizeValue
    \/ AddRow
    \/ ProcessSheet
    \/ RunSlaKpis
    \/ RunPaymentsKpis
    \/ RunSlaMetrics
    \/ RunStatistics

Spec == Init /\ [][Next]_vars

-----------------------------------------------------------------------------
(* Properties of the reports *)

SlaKpisRan == prog = "kpis" /\ pc \in {"sla_done", "done"}

PaymentsKpisRan == prog = "kpis" /\ pc = "done"

SlaMetricsRan == prog = "sla" /\ pc = "done"

StatisticsRan == prog = "pr" /\ pc = "done"

(* the invoice-applicable sub-list of the input *)
Invoices == SelectSeq(input, LAMBDA o : Get(o, "invoice_applicable") = Yes)

StatusBuckets(s, n) ==
    /\ s.done_orders + s.in_progress_orders + s.not_done_orders = s.total_orders
    /\ s.total_orders = n
    /\ s.done_orders >= 0
    /\ s.in_progress_orders >= 0
    /\ s.not_done_orders >= 0

PaymentBuckets(s, n) ==
    /\ s.paid_invoices + s.pending_invoices + s.other_status = s.total_invoices
    /\ s.total_invoices = n
    /\ s.paid_invoices >= 0
    /\ s.pending_invoices >= 0
    /\ s.other_status >= 0

(* C1: in the reports of calculate_sla_kpis and calculate_sla_metrics      *)
(* done + in progress + not done = total = the number of input records, in *)
(* the report of calculate_payments_kpis paid + pending + other = total =  *)
(* the number of records with invoice_applicable = 'Yes', and no bucket is *)
(* negative.                                                               *)
CountingIdentity ==
    /\ SlaKpisRan => StatusBuckets(report.sla.summary, Len(input))
    /\ SlaMetricsRan => StatusBuckets(report.metrics.summary, Len(input))
    /\ PaymentsKpisRan => PaymentBuckets(report.payments.summary, Len(Invoices))

(* both reports of sync_smartsheet.py with a done and an in-progress order, *)
(* a paid invoice and one in another payment status                        *)
CountingIdentityReached ==
    /\ PaymentsKpisRan
    /\ Len(input) = 2
    /\ report.sla.summary.done_orders = 1
    /\ report.sla.summary.in_progress_orders = 1
    /\ report.payments.summary.paid_invoices = 1
    /\ report.payments.summary.other_status = 1

IntLe(a, b) == a <= b

Keys(items) == {items[i].k : i \in DOMAIN items}

Position(items, k) == CHOOSE i \in DOMAIN items : items[i].k = k

(* top holds the cap highest-ranked entries of the dict items, largest     *)
(* value first, an entry in front of the entries of equal value that come  *)
(* after it in items; an entry left out ranks below every entry kept       *)
IsTopN(top, items, cap, Le(_, _)) ==
    /\ Len(top) = MinOf(cap, Len(items))
    /\ Len(top) <= cap
    /\ \A i \in DOMAIN top : \E j \in DOMAIN items : items[j] = top[i]
    /\ \A i, j \in DOMAIN top : i < j =>
          /\ top[i].k /= top[j].k
          /\ Le(top[j].v, top[i].v)
          /\ Le(top[i].v, top[j].v) =>
                Position(items, top[i].k) < Position(items, top[j].k)
    /\ \A b \in DOMAIN items : items[b].k \notin Keys(top) =>
          \A i \in DOMAIN top :
              /\ Le(items[b].v, top[i].v)
              /\ Le(top[i].v, items[b].v) => Position(items, top[i].k) < b

(* the first record of rs whose field (or 'Unknown' without it) is k *)
FirstRecord(rs, field, k) ==
    SetMin({i \in DOMAIN rs : GetOr(rs[i], field, Unknown) = k})

(* the first equipment slot of rs that holds k, slots counted record by record *)
FirstSlot(rs, k) ==
    SetMin(UNION {{5 * i + u : u \in {v \in 1..5 : Get(rs[i], EquipmentFields[v]) = k}} :
                     i \in DOMAIN rs})

(* the keys of the dict items are distinct and in the order of their first *)
(* occurrence                                                              *)
InOrderOf(items, First(_)) ==
    \A a \in DOMAIN items : a < Len(items) => First(items[a].k) < First(items[a + 1].k)

RankedByField(top, items, cap, Le(_, _), rs, field) ==
    /\ IsTopN(top, items, cap, Le)
    /\ InOrderOf(items, LAMBDA k : FirstRecord(rs, field, k))

RankedBySlot(top, items, cap, Le(_, _), rs) ==
    /\ IsTopN(top, items, cap, Le)
    /\ InOrderOf(items, LAMBDA k : FirstSlot(rs, k))

SlaKpisRanked(c, r) ==
    /\ RankedByField(r.top_suppliers, c.suppliers, 10, IntLe, input, "supplier")
    /\ RankedByField(r.suppliers, c.supplier_costs, 10, DecLe, input, "supplier")
    /\ RankedByField(r.projects_orders, c.projects_count, 20, IntLe, input, "project")
    /\ RankedByField(r.top_projects, c.projects, 20, DecLe, input, "project")
    /\ RankedByField(r.projects_amounts, c.projects, 20, DecLe, input, "project")
    /\ RankedByField(r.equipment_count, c.equipment, 15, IntLe, input, "equipment_type")
    /\ RankedByField(r.equipment_distribution, c.equipment, 15, IntLe, input,
                     "equipment_type")
    /\ RankedByField(r.equipment_cost, c.equipment_costs, 15, DecLe, input,
                     "equipment_type")

PaymentsKpisRanked(c, r) ==
    /\ RankedByField(r.suppliers, c.suppliers, 15, IntLe, Invoices, "supplier")
    /\ RankedByField(r.projects, c.projects, 20, IntLe, Invoices, "project")
    /\ RankedByField(r.equipment_requested, c.equipment, 15, IntLe, Invoices,
                     "equipment_type")

SlaMetricsRanked(c, r) ==
    /\ RankedByField(r.top_suppliers, c.supplier_counts, 10, IntLe, input, "supplier")
    /\ RankedByField(r.suppliers_by_amount, c.supplier_amounts, 10, DecLe, input,
                     "supplier")
    /\ RankedByField(r.top_projects_by_orders, c.project_counts, 20, IntLe, input,
                     "project")
    /\ RankedByField(r.top_projects_by_amount, c.project_amounts, 20, DecLe, input,
                     "project")
    /\ RankedBySlot(r.equipment_distribution, c.equipment_counts, 15, IntLe, input)
    /\ RankedBySlot(r.equipment_by_amount, c.equipment_amounts, 15, DecLe, input)

(* C2: every top-N distribution of the three reports has at most its cap   *)
(* of entries (10 suppliers, 20 projects, 15 equipment, 15 suppliers in    *)
(* the payments report), is in non-increasing order of its count or sum,   *)
(* keeps the highest-ranked keys, and puts keys of equal count or sum in   *)
(* the order of their first occurrence in the record list.                 *)
TopNDistributions ==
    /\ SlaKpisRan => SlaKpisRanked(calc.sla, report.sla)
    /\ PaymentsKpisRan => PaymentsKpisRanked(calc.payments, report.payments)
    /\ SlaMetricsRan => SlaMetricsRanked(calc.metrics, report.metrics)

(* more suppliers than the cap, the newest one ranked first with two       *)
(* orders, the rest tied at one order each                                 *)
TopNDistributionsReached ==
    /\ SlaKpisRan
    /\ Len(calc.sla.suppliers) > 10
    /\ Len(calc.sla.projects) > 20
    /\ Len(report.sla.top_suppliers) = 10
    /\ report.sla.top_suppliers[1] = [k |-> KeyStr(NBallast + 1), v |-> 2]
    /\ report.sla.top_suppliers[2].v = report.sla.top_suppliers[3].v

(* v is the element at zero-based index k of xs sorted ascending: fewer    *)
(* than k + 1 elements are below v and more than k are at most v           *)
IsOrderStatistic(xs, k, v) ==
    /\ \E i \in DOMAIN xs : xs[i] = v
    /\ Cardinality({i \in DOMAIN xs : DecLt(xs[i], v)}) <= k
    /\ Cardinality({i \in DOMAIN xs : DecLe(xs[i], v)}) > k

DurationStatistics(xs, n, median, p90, rate) ==
    n > 0 =>
        /\ IsOrderStatistic(xs, n \div 2, median)
        /\ (9 * n) \div 10 <= n - 1
        /\ IsOrderStatistic(xs, MinOf((9 * n) \div 10, n - 1), p90)
        /\ rate.num * n =
               100 * Cardinality({i \in DOMAIN xs : DecLe(xs[i], Num(3))}) * rate.den

OneToTen(s) ==
    /\ s.median_duration = Num(6)
    /\ s.p90_duration = Num(10)
    /\ s.on_time_rate = Num(30)

(* C3: for a non-empty collected duration list of length n, in             *)
(* calculate_sla_kpis and in calculate_sla_metrics, median_duration is the *)
(* element at index floor(n/2) of the sorted list, p90_duration the        *)
(* element at index min(floor(0.9 n), n - 1), an index inside the list     *)
(* also without the clamp, and on_time_rate is 100 * (values <= 3) / n;    *)
(* the list 1..10 gives median 6, p90 10 and on-time rate 30.              *)
PercentileDefinitions ==
    /\ SlaKpisRan =>
          /\ DurationStatistics(calc.sla.completion_times,
                                Len(calc.sla.completion_times),
                                calc.sla.median_duration, calc.sla.p90_duration,
                                calc.sla.on_time_rate)
          /\ input = DurationList("completion_days") => OneToTen(report.sla.summary)
    /\ SlaMetricsRan =>
          /\ DurationStatistics(calc.metrics.durations, Len(calc.metrics.durations),
                                calc.metrics.median_duration, calc.metrics.p90_duration,
                                calc.metrics.on_time_rate)
          /\ input = DurationList("duration") => OneToTen(report.metrics.summary)

(* the durations 1..10 went through calculate_sla_kpis *)
PercentileDefinitionsReached ==
    /\ SlaKpisRan
    /\ input = DurationList("completion_days")
    /\ Len(calc.sla.completion_times) = 10
    /\ report.sla.summary.median_duration = Num(6)
    /\ report.sla.summary.p90_duration = Num(10)

(* the records whose field is present with a strictly positive normalized  *)
(* value                                                                   *)
PositiveRecords(rs, field, Normalized(_)) ==
    {i \in DOMAIN rs : field \in DOMAIN rs[i] /\ DecLt(Num(0), Normalized(rs[i][field]))}

OnlyPositive(xs, rs, field, Normalized(_)) ==
    /\ \A i \in DOMAIN xs : DecLt(Num(0), xs[i])
    /\ Len(xs) = Cardinality(PositiveRecords(rs, field, Normalized))

(* C4: the duration list behind the average, median, P90 and on-time rate  *)
(* holds only the present, strictly positive durations: a record whose     *)
(* field is unparseable, zero or negative adds no element, in              *)
(* calculate_sla_kpis (completion_days) and in calculate_sla_metrics       *)
(* (duration).                                                             *)
PositiveDurations ==
    /\ SlaKpisRan =>
          OnlyPositive(calc.sla.completion_times, input, "completion_days", parse_days)
    /\ SlaMetricsRan =>
          OnlyPositive(calc.metrics.durations, input, "duration", safe_float)

(* C4, the half that holds: calculate_sla_metrics collects only the        *)
(* present, strictly positive durations.                                   *)
MetricsPositiveDurations ==
    SlaMetricsRan => OnlyPositive(calc.metrics.durations, input, "duration", safe_float)

(* calculate_sla_metrics ran over an unparseable and a negative duration *)
MetricsPositiveDurationsReached ==
    /\ SlaMetricsRan
    /\ Len(input) = 2
    /\ Get(input[1], "duration") = NotAvailable
    /\ Get(input[2], "duration") = Num(0 - 1)
    /\ calc.metrics.durations = <<>>

(* calculate_sla_kpis collected the 0 of an unparseable completion_days *)
NonPositiveDurationCollected ==
    /\ SlaKpisRan
    /\ Len(input) = 1
    /\ Get(input[1], "completion_days") = NotAvailable
    /\ calc.sla.completion_times = <<Num(0)>>
    /\ report.sla.summary.on_time_rate = Num(100)

(* the supplier values of the input records *)
SupplierValues ==
    {Get(input[i], "supplier") : i \in {j \in DOMAIN input : HasField(input[j], "supplier")}}

(* the keys of the by-amount view: 'Unknown' stands for a missing supplier *)
SupplierKeys ==
    SupplierValues
        \cup (IF \E i \in DOMAIN input : "supplier" \notin DOMAIN input[i]
              THEN {Unknown} ELSE {})

HasEntry(items, k, v) == \E i \in DOMAIN items : items[i] = [k |-> k, v |-> v]

OrdersOf(k) == SelectSeq(input, LAMBDA o : Get(o, "supplier") = k)

SupplierEntries(r) ==
    \A k \in SupplierValues :
        /\ HasEntry(r.top_suppliers, k, Len(OrdersOf(k)))
        /\ HasEntry(r.suppliers, k,
                    DecSum(Map(OrdersOf(k), LAMBDA o : parse_cost(Get(o, "cost")))))

SupplierExampleViews(r) ==
    /\ r.suppliers = << [k |-> S(<<"A">>), v |-> Num(1500)],
                        [k |-> S(<<"B">>), v |-> Num(100)] >>
    /\ r.top_suppliers = << [k |-> S(<<"A">>), v |-> 2], [k |-> S(<<"B">>), v |-> 1] >>

RECURSIVE SumOfCounts(_)
SumOfCounts(items) ==
    IF items = <<>> THEN 0 ELSE items[1].v + SumOfCounts(Tail(items))

(* a record of rs without the field puts the key 'Unknown' in the dict of  *)
(* counts and in the dict of amounts; when no key is cut off, the counts   *)
(* of the by-count view add up to the number of records                    *)
UnknownBucket(counts, amounts, top, rs, field) ==
    /\ (\E i \in DOMAIN rs : field \notin DOMAIN rs[i]) =>
          /\ HasKey(counts, Unknown)
          /\ HasKey(amounts, Unknown)
    /\ Len(top) = Len(counts) => SumOfCounts(top) = Len(rs)

(* C6: a record that lacks a categorical field (supplier, project,         *)
(* equipment type) is attributed to the key 'Unknown' of that category, by *)
(* count and by amount alike, so that within the cap the counts of a       *)
(* by-count distribution add up to the number of records.                  *)
UnknownAttribution ==
    /\ SlaKpisRan =>
          /\ UnknownBucket(calc.sla.suppliers, calc.sla.supplier_costs,
                           report.sla.top_suppliers, input, "supplier")
          /\ UnknownBucket(calc.sla.projects_count, calc.sla.projects,
                           report.sla.projects_orders, input, "project")
          /\ UnknownBucket(calc.sla.equipment, calc.sla.equipment_costs,
                           report.sla.equipment_count, input, "equipment_type")
    /\ SlaMetricsRan =>
          /\ UnknownBucket(calc.metrics.supplier_counts, calc.metrics.supplier_amounts,
                           report.metrics.top_suppliers, input, "supplier")
          /\ UnknownBucket(calc.metrics.project_counts, calc.metrics.project_amounts,
                           report.metrics.top_projects_by_orders, input, "project")

(* one order without supplier, project and equipment type: calculate_sla_kpis *)
(* counts it nowhere and books its cost under 'Unknown'                    *)
UnknownOnlyByAmount ==
    /\ SlaKpisRan
    /\ Len(input) = 1
    /\ DOMAIN input[1] = {"job_order_no", "cost", "invoice_applicable"}
    /\ report.sla.top_suppliers = <<>>
    /\ report.sla.projects_orders = <<>>
    /\ report.sla.suppliers = << [k |-> Unknown, v |-> parse_cost(input[1]["cost"])] >>
    /\ report.sla.top_projects = report.sla.suppliers

(* one record without supplier and project: calculate_sla_metrics leaves   *)
(* it out of the counts and of the amounts                                 *)
UnknownNowhere ==
    /\ SlaMetricsRan
    /\ Len(input) = 1
    /\ "supplier" \notin DOMAIN input[1]
    /\ "project" \notin DOMAIN input[1]
    /\ "total_amount" \in DOMAIN input[1]
    /\ report.metrics.top_suppliers = <<>>
    /\ report.metrics.suppliers_by_amount = <<>>
    /\ report.metrics.top_projects_by_amount = <<>>

(* the records of rs that carry a date, and the month key of a date *)
Dated(rs, field) == SelectSeq(rs, LAMBDA o : Truthy(Get(o, field)))

KeyOfDate(v) == IF v.t = "str" THEN Prefix(v.s, 7) ELSE Prefix(PyStr(v), 7)

InMonth(rs, field, month) ==
    SelectSeq(Dated(rs, field), LAMBDA o : KeyOfDate(o[field]) = month)

(* ascending by month key, no key twice *)
MonthsAscending(trend) ==
    \A i, j \in DOMAIN trend : i < j =>
        /\ trend[i].month /= trend[j].month
        /\ StrLt(trend[i].month, trend[j].month)

(* every dated record is counted in the entry of its month, and that entry *)
(* holds the sum of the amounts                                            *)
MonthsComplete(trend, rs, field) ==
    \A o \in Range(Dated(rs, field)) :
        \E i \in DOMAIN trend : trend[i].month = KeyOfDate(o[field])

KpiMonths(trend, rs) ==
    /\ MonthsAscending(trend)
    /\ MonthsComplete(trend, rs, "job_order_date")
    /\ \A i \in DOMAIN trend :
          /\ trend[i].orders = Len(InMonth(rs, "job_order_date", trend[i].month))
          /\ trend[i].orders > 0
          /\ trend[i].amount =
                 DecSum(Map(InMonth(rs, "job_order_date", trend[i].month),
                            LAMBDA o : parse_cost(Get(o, "cost"))))

PaymentMonths(trend, rs) ==
    /\ MonthsAscending(trend)
    /\ MonthsComplete(trend, rs, "job_order_date")
    /\ \A i \in DOMAIN trend :
          /\ trend[i].invoices = Len(InMonth(rs, "job_order_date", trend[i].month))
          /\ trend[i].invoices > 0
          /\ trend[i].amount =
                 DecSum(Map(InMonth(rs, "job_order_date", trend[i].month),
                            LAMBDA o : parse_cost(Get(o, "cost"))))

(* rs is the record list after the status and amount loops *)
MetricsMonths(trend, rs) ==
    /\ MonthsAscending(trend)
    /\ MonthsComplete(trend, rs, "request_date")
    /\ \A i \in DOMAIN trend :
          /\ trend[i].orders = Len(InMonth(rs, "request_date", trend[i].month))
          /\ trend[i].orders > 0
          /\ trend[i].amount =
                 DecSum(Map(InMonth(rs, "request_date", trend[i].month),
                            LAMBDA o : o["total_amount"]))
          /\ trend[i].done =
                 Len(SelectSeq(InMonth(rs, "request_date", trend[i].month),
                               LAMBDA o : o["status"] = Done))
          /\ trend[i].done <= trend[i].orders

(* C7: monthly_trend of calculate_sla_kpis, calculate_payments_kpis and    *)
(* calculate_sla_metrics is ascending by month key with no key twice; an   *)
(* entry's count is the number of records mapped to its month key and its  *)
(* amount the sum of their normalized monetary values; in                  *)
(* calculate_sla_metrics done <= orders in every entry.                    *)
MonthlyTrendOrdered ==
    /\ SlaKpisRan => KpiMonths(report.sla.monthly_trend, input)
    /\ PaymentsKpisRan => PaymentMonths(report.payments.monthly_trend, Invoices)
    /\ SlaMetricsRan => MetricsMonths(report.metrics.monthly_trend, records)

(* two months entered newest first come out oldest first *)
MonthlyTrendOrderedReached ==
    /\ SlaKpisRan
    /\ Len(input) = 2
    /\ Get(input[1], "job_order_date") = Date1
    /\ Get(input[2], "job_order_date") = Date3
    /\ Len(report.sla.monthly_trend) = 2
    /\ report.sla.monthly_trend[1].month = Prefix(Date3.s, 7)

(* a 7-character YYYY-MM key *)
IsYearMonth(k) ==
    /\ Len(k) = 7
    /\ \A i \in {1, 2, 3, 4, 6, 7} : IsDigit(k[i])
    /\ k[5] = "-"

(* a date value that starts with YYYY-MM *)
Conforming(v) == v.t = "str" /\ Len(v.s) >= 7 /\ IsYearMonth(Prefix(v.s, 7))

(* every key of the trend is a YYYY-MM prefix and the entries count the    *)
(* records with a conforming date, no others                               *)
ConformingMonths(months, counts, rs, field) ==
    /\ \A i \in DOMAIN months : IsYearMonth(months[i])
    /\ SumOfCounts(counts) =
           Cardinality({i \in DOMAIN rs : Conforming(Get(rs[i], field))})

(* C8: a record whose date is missing or not of the YYYY-MM prefix shape   *)
(* ('12/05/2025', a number, a string shorter than 7 characters) adds to no *)
(* monthly_trend entry, and every month key of monthly_trend is a          *)
(* 7-character YYYY-MM prefix.                                             *)
NonConformingDatesSkipped ==
    /\ SlaKpisRan =>
          ConformingMonths(Map(report.sla.monthly_trend, LAMBDA e : e.month),
                           Map(report.sla.monthly_trend, LAMBDA e : [v |-> e.orders]),
                           input, "job_order_date")
    /\ PaymentsKpisRan =>
          ConformingMonths(Map(report.payments.monthly_trend, LAMBDA e : e.month),
                           Map(report.payments.monthly_trend,
                               LAMBDA e : [v |-> e.invoices]),
                           Invoices, "job_order_date")
    /\ SlaMetricsRan =>
          ConformingMonths(Map(report.metrics.monthly_trend, LAMBDA e : e.month),
                           Map(report.metrics.monthly_trend, LAMBDA e : [v |-> e.orders]),
                           input, "request_date")

(* the date '12/05/2025' became the month key '12/05/2' of calculate_sla_kpis *)
SlashDateBecameMonth ==
    /\ SlaKpisRan
    /\ Len(input) = 1
    /\ Get(input[1], "job_order_date") = DateSlash
    /\ Len(report.sla.monthly_trend) = 1
    /\ report.sla.monthly_trend[1].month = <<"1", "2", "/", "0", "5", "/", "2">>
    /\ report.sla.monthly_trend[1].orders = 1

(* the numeric date 45000 became the month key '45000' of calculate_sla_metrics *)
NumberBecameMonth ==
    /\ SlaMetricsRan
    /\ Len(input) = 1
    /\ Get(input[1], "request_date") = Num(45000)
    /\ Len(report.metrics.monthly_trend) = 1
    /\ report.metrics.monthly_trend[1].month = <<"4", "5", "0", "0", "0">>

IsPercent(x) == DecLe(Num(0), x) /\ DecLe(x, Num(100))

NonNegative(x) == DecLe(Num(0), x)

AllNonNegative(items) == \A i \in DOMAIN items : NonNegative(items[i].v)

AmountsNonNegative(trend) == \A i \in DOMAIN trend : NonNegative(trend[i].amount)

SlaKpisBounded(r) ==
    /\ IsPercent(r.summary.on_time_rate)
    /\ (\A i \in DOMAIN input : NonNegative(parse_cost(Get(input[i], "cost")))) =>
          /\ NonNegative(r.summary.total_amount)
          /\ AllNonNegative(r.suppliers)
          /\ AllNonNegative(r.top_projects)
          /\ AllNonNegative(r.equipment_cost)
          /\ AmountsNonNegative(r.monthly_trend)

PaymentsKpisBounded(r) ==
    /\ IsPercent(r.summary.payment_rate)
    /\ (\A i \in DOMAIN Invoices : NonNegative(parse_cost(Get(Invoices[i], "cost")))) =>
          /\ NonNegative(r.summary.total_amount)
          /\ AmountsNonNegative(r.monthly_trend)

(* rs is the record list after the status and amount loops *)
SlaMetricsBounded(r, rs) ==
    /\ IsPercent(r.summary.on_time_rate)
    /\ IsPercent(r.summary.completion_rate)
    /\ \A i \in DOMAIN r.monthly_trend : IsPercent(r.monthly_trend[i].completion_rate)
    /\ (\A i \in DOMAIN rs :
            /\ NonNegative(rs[i]["total_amount"])
            /\ \A u \in 1..5 : NonNegative(safe_float(Get(rs[i], PriceFields[u])))) =>
          /\ NonNegative(r.summary.total_amount)
          /\ AllNonNegative(r.suppliers_by_amount)
          /\ AllNonNegative(r.top_projects_by_amount)
          /\ AllNonNegative(r.equipment_by_amount)
          /\ AmountsNonNegative(r.monthly_trend)

(* C9: every percentage of the SLA and payments reports is in [0, 100]:    *)
(* on_time_rate of calculate_sla_kpis and calculate_sla_metrics,           *)
(* completion_rate and each monthly completion_rate of                     *)
(* calculate_sla_metrics, payment_rate of calculate_payments_kpis; and     *)
(* total_amount and every by-amount sum is non-negative when every         *)
(* normalized monetary input is.                                           *)
PercentagesBounded ==
    /\ SlaKpisRan => SlaKpisBounded(report.sla)
    /\ PaymentsKpisRan => PaymentsKpisBounded(report.payments)
    /\ SlaMetricsRan => SlaMetricsBounded(report.metrics, records)

(* one of two records of a month is done: both completion rates are 50 *)
PercentagesBoundedReached ==
    /\ SlaMetricsRan
    /\ Len(input) = 2
    /\ Len(report.metrics.monthly_trend) = 1
    /\ report.metrics.monthly_trend[1].completion_rate = Num(50)
    /\ report.metrics.summary.completion_rate = Num(50)
    /\ report.metrics.summary.total_amount = Num(200)

(* C10: the percentages of calculate_statistics are in [0, 100]:           *)
(* return_rate_2025 and each of the 12 monthly return_rate entries, also   *)
(* when the RETURNED requests outnumber the APPROVED ones of the year or   *)
(* of a month.                                                             *)
ReturnRatesBounded ==
    StatisticsRan =>
        /\ IsPercent(report.stats.summary.return_rate_2025)
        /\ DOMAIN report.stats.monthly.return_rate = 1..12
        /\ \A i \in 1..12 : IsPercent(report.stats.monthly.return_rate[i])

(* one APPROVED and two RETURNED requests of January 2025: a rate of 200 *)
ReturnRateAboveHundred ==
    /\ StatisticsRan
    /\ Len(input) = 3
    /\ report.stats.summary.total_approved_2025 = 1
    /\ report.stats.summary.total_returned_2025 = 2
    /\ report.stats.summary.return_rate_2025 = Num(200)
    /\ report.stats.monthly.return_rate[1] = Num(200)

Orderings(n) == {f \in [1..n -> 1..n] : Range(f) = 1..n}

SwapAt(rs, k) ==
    [i \in DOMAIN rs |-> IF i = k THEN rs[k + 1] ELSE IF i = k + 1 THEN rs[k] ELSE rs[i]]

(* every permutation of a short list; of a longer one its reversal and the *)
(* exchanges of two neighbours                                             *)
Rearrangements(rs) ==
    IF Len(rs) <= MaxPermuted
    THEN {[i \in DOMAIN rs |-> rs[f[i]]] : f \in Orderings(Len(rs))}
    ELSE {Reverse(rs)} \cup {SwapAt(rs, k) : k \in 1..(Len(rs) - 1)}

KpiSummaryOf(orders) == sla_kpis_summary(KpiScalars(orders))

MetricsSummaryOf(records0) == sla_metrics_summary(SlaScalars(SlaNormalize(records0)))

(* C11: calculate_sla_kpis and calculate_sla_metrics return the same       *)
(* summary statistics (total, status counts, total_amount, avg_duration,   *)
(* median_duration, p90_duration, on_time_rate, open_orders) for a record  *)
(* list and for every permutation of it.                                   *)
SummaryOrderFree ==
    /\ SlaKpisRan =>
          \A p \in Rearrangements(input) : KpiSummaryOf(p) = report.sla.summary
    /\ SlaMetricsRan =>
          \A p \in Rearrangements(input) : MetricsSummaryOf(p) = report.metrics.summary

(* the costs 5.7, 1.998, 5.047 add up to 12.745000000000001 and round to   *)
(* 12.75; in the order 5.7, 5.047, 1.998 they add up to 12.745 and round   *)
(* to 12.74                                                                *)
SummaryChangedWithOrder ==
    /\ SlaKpisRan
    /\ input = <<FloatOrder(Amount1), FloatOrder(Amount2), FloatOrder(Amount3)>>
    /\ report.sla.summary.total_amount = Dec(1275, 2)
    /\ KpiSummaryOf(<<input[1], input[3], input[2]>>).total_amount = Dec(1274, 2)

OrderFreeFields(s) ==
    [ total_orders       |-> s.total_orders,
      done_orders        |-> s.done_orders,
      in_progress_orders |-> s.in_progress_orders,
      not_done_orders    |-> s.not_done_orders,
      open_orders        |-> s.open_orders,
      on_time_rate       |-> s.on_time_rate,
      median_duration    |-> s.median_duration,
      p90_duration       |-> s.p90_duration ]

(* C11, the part that holds: the counts, the on-time rate, the median and  *)
(* the P90 of the two summaries are the same for every permutation of the  *)
(* record list.                                                            *)
CountsAndPercentilesOrderFree ==
    /\ SlaKpisRan =>
          \A p \in Rearrangements(input) :
              OrderFreeFields(KpiSummaryOf(p)) = OrderFreeFields(report.sla.summary)
    /\ SlaMetricsRan =>
          \A p \in Rearrangements(input) :
              OrderFreeFields(MetricsSummaryOf(p)) = OrderFreeFields(report.metrics.summary)

(* the durations 10, 9, .., 1 and two more went through calculate_sla_metrics *)
CountsAndPercentilesOrderFreeReached ==
    /\ SlaMetricsRan
    /\ Len(input) = 12
    /\ SubSeq(input, 1, 10) = DurationList("duration")
    /\ report.metrics.summary.median_duration = Num(5)

-----------------------------------------------------------------------------
(* Empty inputs *)

SummaryCounts ==
    { "total_orders", "done_orders", "in_progress_orders", "not_done_orders",
      "open_orders", "total_invoices", "paid_invoices", "pending_invoices",
      "other_status", "total_prs", "total_approved_2025", "total_returned_2025",
      "within_30_days", "after_30_days", "total_with_po" }

(* every count of a summary is 0 and every total, rate and average is zero *)
ZeroSummary(summary) ==
    \A f \in DOMAIN summary :
        CASE f \in SummaryCounts    -> summary[f] = 0
          [] f = "status_breakdown" -> summary[f] = <<>>
          [] OTHER                  -> summary[f] = Num(0)

(* the status counts are 0, every other distribution has no entry *)
EmptyDistributions(result) ==
    \A f \in DOMAIN result \ {"summary"} :
        IF f \in {"status", "payment_status"}
        THEN \A k \in DOMAIN result[f] : result[f][k] = 0
        ELSE result[f] = <<>>

EmptyResult(result) == ZeroSummary(result.summary) /\ EmptyDistributions(result)

EmptyStatistics(stats) ==
    /\ ZeroSummary(stats.summary)
    /\ \A f \in {"approved", "returned", "rejected"} :
          \A i \in 1..12 : stats.monthly[f][i] = 0
    /\ \A i \in 1..12 : stats.monthly.return_rate[i] = Num(0)
    /\ \A f \in DOMAIN stats.filters : stats.filters[f] = <<>>

(* C12: every aggregation returns without raising, for every input; on the *)
(* empty record list its counts and totals are 0, its rates and averages   *)
(* are 0, its distributions are empty and monthly_trend is the empty list. *)
(* A non-empty list without durations, or without an invoice-applicable    *)
(* record, gives averages and rates of 0 rather than a division by zero.   *)
EmptyInputDefaults ==
    /\ SlaKpisRan =>
          /\ Returned(report.sla)
          /\ (input = <<>> => EmptyResult(report.sla))
          /\ (calc.sla.completion_times = <<>> =>
                /\ report.sla.summary.avg_duration = Num(0)
                /\ report.sla.summary.on_time_rate = Num(0))
    /\ PaymentsKpisRan =>
          /\ Returned(report.payments)
          /\ (input = <<>> => EmptyResult(report.payments))
          /\ (calc.payments.total = 0 =>
                /\ report.payments.summary.payment_rate = Num(0)
                /\ report.payments.summary.avg_completion_days = Num(0)
                /\ report.payments.summary.avg_payment_cycle = Num(0)
                /\ report.payments.summary.avg_invoice_receive = Num(0))
    /\ SlaMetricsRan =>
          /\ Returned(report.metrics)
          /\ (input = <<>> => EmptyResult(report.metrics))
          /\ (calc.metrics.durations = <<>> =>
                /\ report.metrics.summary.avg_duration = Num(0)
                /\ report.metrics.summary.on_time_rate = Num(0))
    /\ StatisticsRan =>
          /\ Returned(report.stats)
          /\ (input = <<>> => EmptyStatistics(report.stats))

EmptyInputAggregated ==
    /\ PaymentsKpisRan
    /\ input = <<>>
    /\ Returned(report.sla)
    /\ Returned(report.payments)
    /\ report.sla.monthly_trend = <<>>
    /\ report.payments.summary.payment_rate = Num(0)

-----------------------------------------------------------------------------
(* Properties of process_sheet *)

(* past the call of process_sheet: the columns are mapped and the rows built *)
ProcessSheetRan == prog = "sheet" /\ "col_map" \in DOMAIN calc

(* the field is in the record and is not the empty string *)
PresentNonEmpty(order, k) == k \in DOMAIN order /\ order[k] /= Str(<<>>)

KeyPresent(order) == \E k \in KeyFields(scen) : PresentNonEmpty(order, k)

(* the positions of the rows whose record has its key field, in row order *)
RECURSIVE KeptRows(_)
KeptRows(n) ==
    IF n = 0 THEN <<>>
    ELSE IF KeyPresent(calc.built[n]) THEN Append(KeptRows(n - 1), n)
    ELSE KeptRows(n - 1)

(* C13: process_sheet returns exactly the records of the rows whose built  *)
(* record has a present, non-empty key field (job_order_no in              *)
(* sync_smartsheet and api; job_order_no or project in sync_sla and        *)
(* sync_logistics), in row order: the output is a subsequence of the rows  *)
(* and every retained record has its key field.                            *)
KeyedRowsKept ==
    (prog = "sheet" /\ pc = "processed") =>
        /\ Len(records) <= Len(input.rows)
        /\ Len(records) = Len(KeptRows(Len(input.rows)))
        /\ \A i \in DOMAIN records : records[i] = calc.built[KeptRows(Len(input.rows))[i]]
        /\ \A i \in DOMAIN records : KeyPresent(records[i])

KeyedRowsKeptReached ==
    /\ prog = "sheet"
    /\ pc = "processed"
    /\ scen = "sync_sla"
    /\ Len(input.rows) = 2
    /\ ~KeyPresent(calc.built[1])
    /\ records = <<[project |-> S(<<"P">>)]>>

(* no other cell of the row resolves to the field of cell j *)
OnlyCellOfField(cells, j) ==
    \A k \in DOMAIN cells \ {j} :
        \/ cells[k].columnId \notin DOMAIN calc.col_map
        \/ calc.col_map[cells[k].columnId] /= calc.col_map[cells[j].columnId]

(* the record holds the structured value, else the display value, else nothing *)
CellStored(order, field, cell) ==
    /\ cell.value /= None => (field \in DOMAIN order /\ order[field] = cell.value)
    /\ (cell.value = None /\ cell.displayValue /= None) =>
          (field \in DOMAIN order /\ order[field] = cell.displayValue)
    /\ (cell.value = None /\ cell.displayValue = None) => field \notin DOMAIN order

ResolvedCells ==
    { p \in UNION {{<<i, j>> : j \in DOMAIN input.rows[i]} : i \in DOMAIN input.rows} :
        /\ input.rows[p[1]][p[2]].columnId \in DOMAIN calc.col_map
        /\ OnlyCellOfField(input.rows[p[1]], p[2]) }

(* C14: for every cell whose column resolves to a canonical field, the     *)
(* record stores the structured value when it is non-null (0, false and    *)
(* the empty string included), the display value only when the structured  *)
(* value is null, and nothing only when both are null.                     *)
StructuredValueStored ==
    ProcessSheetRan =>
        \A p \in ResolvedCells :
            CellStored(calc.built[p[1]],
                       calc.col_map[input.rows[p[1]][p[2]].columnId],
                       input.rows[p[1]][p[2]])

(* a structured 0 with display value '0': the record holds the string '0' *)
StructuredZeroReplaced ==
    /\ ProcessSheetRan
    /\ scen = "sync_logistics"
    /\ input.rows = <<<<JobCell, Cell(4, Num(0), S(<<"0">>)), Cell(5, Num(5), None)>>>>
    /\ <<1, 2>> \in ResolvedCells
    /\ calc.built[1].total_amount = S(<<"0">>)

(* what the code does keep: a structured value that is truthy *)
TruthyValueStored ==
    ProcessSheetRan =>
        \A p \in ResolvedCells :
            Truthy(input.rows[p[1]][p[2]].value) =>
                calc.built[p[1]][calc.col_map[input.rows[p[1]][p[2]].columnId]]
                    = input.rows[p[1]][p[2]].value

TruthyValueStoredReached ==
    /\ ProcessSheetRan
    /\ scen = "api"
    /\ input.rows = <<<<JobCell, Cell(3, Completed, None), Cell(4, Dec(125, 1), None)>>>>
    /\ <<1, 3>> \in ResolvedCells
    /\ calc.built[1].cost = Dec(125, 1)

(* the columns whose title is a key of the script's catalog *)
CatalogColumns == {col \in Range(input.columns) : col.title \in DOMAIN Catalog(scen)}

(* C15: the column map holds exactly the identifiers of the columns whose  *)
(* title is a key of the catalog, each mapped to the catalog's canonical   *)
(* name for that title; a column with another title is left out, and every *)
(* key of every record built is a canonical name of the catalog.           *)
ColumnMapExact ==
    ProcessSheetRan =>
        /\ DOMAIN calc.col_map = {col.id : col \in CatalogColumns}
        /\ \A col \in CatalogColumns : calc.col_map[col.id] = Catalog(scen)[col.title]
        /\ \A i \in DOMAIN calc.built : DOMAIN calc.built[i] \subseteq Range(Catalog(scen))
        /\ pc = "processed" =>
              \A i \in DOMAIN records : DOMAIN records[i] \subseteq Range(Catalog(scen))

ColumnMapExactReached ==
    /\ ProcessSheetRan
    /\ scen = "sync_logistics"
    /\ input.columns = TransportLayout
    /\ DOMAIN calc.col_map = 1..5
    /\ calc.col_map[5] = "price_1"
    /\ Len(records) = 2
    /\ "price_1" \in DOMAIN records[1]

-----------------------------------------------------------------------------
(* Properties of the normalizers *)

NormalizersRan == prog = "norm" /\ pc = "done"

(* the double a numeric cell value stands for *)
NumericValue(v) ==
    CASE v.t = "bool" -> Num(IF v.b THEN 1 ELSE 0)
      [] v.t = "int"  -> MakeFloat(v.neg, v.b, v.x, FALSE)
      [] OTHER        -> v

(* the number the characters spell, 0 when they spell none *)
ParsedOrZero(chars) ==
    IF chars /= <<>> /\ PyFloat(chars).ok THEN PyFloat(chars).v ELSE Num(0)

NoneRaised == \A f \in DOMAIN report : report[f].t /= "raise"

(* the values the specification gives parse_cost and parse_days *)
NormalizedAsSpecified ==
    /\ NoneRaised
    /\ input = None => (report.parse_cost = Num(0) /\ report.parse_days = Num(0))
    /\ IsNumber(input) =>
          /\ report.parse_cost = NumericValue(input)
          /\ report.parse_days = NumericValue(input)
          /\ report.safe_float = NumericValue(input)
    /\ input.t = "str" =>
          /\ report.parse_cost = ParsedOrZero(SelectSeq(input.s, IsCostChar))
          /\ report.parse_days = ParsedOrZero(input.s)

CostParseable(o) == Get(o, "cost") /= NotAvailable

(* an order with cost 'N/A' is counted and adds 0 to the total amounts *)
UnparseableCostCounted ==
    /\ SlaKpisRan =>
          /\ report.sla.summary.total_orders = Len(input)
          /\ report.sla.summary.total_amount
                = KpiSummaryOf(SelectSeq(input, CostParseable)).total_amount
    /\ PaymentsKpisRan =>
          report.payments.summary.total_amount
              = calculate_payments_kpis(SelectSeq(input, CostParseable)).summary.total_amount

(* C16: parse_cost, parse_days and safe_float raise for no input value;    *)
(* parse_cost returns a number unchanged and otherwise the number spelled  *)
(* by the digits and points of the input, or 0; parse_days returns a       *)
(* number unchanged, the number a string spells, or 0; an order with cost  *)
(* 'N/A' is counted in total_orders and adds 0 to the monetary sums.       *)
NormalizersTotal ==
    /\ NormalizersRan => NormalizedAsSpecified
    /\ UnparseableCostCounted

(* the int 2^1024 has no double: float(value) raises OverflowError *)
NormalizerRaised ==
    /\ NormalizersRan
    /\ input = BigInt(FALSE, BigOfInt(1), 1024)
    /\ report.parse_cost = OverflowError
    /\ report.parse_days = OverflowError
    /\ report.safe_float = OverflowError

(* what does hold: the same for every input but an int of 1024 bits or more *)
NormalizersTotalInRange ==
    /\ (NormalizersRan /\ (input.t = "int" => BigBitLen(input.b) + input.x < 1024))
          => NormalizedAsSpecified
    /\ UnparseableCostCounted

NormalizersTotalInRangeReached ==
    /\ NormalizersRan
    /\ input = NotAvailable
    /\ report.parse_cost = Num(0)
    /\ report.parse_days = Num(0)
    /\ report.safe_float = Num(0)

(* C17: on every string safe_float returns the number parse_cost returns:  *)
(* after the currency codes and separators it falls back to the digits and *)
(* the decimal point, so '5 sar' gives 5 and not 0.0.                      *)
SafeFloatStripsLikeParseCost ==
    (NormalizersRan /\ input.t = "str") => report.safe_float = report.parse_cost

(* safe_float('5 sar') is 0.0 where parse_cost('5 sar') is 5.0 *)
SafeFloatGaveZero ==
    /\ NormalizersRan
    /\ input = S(<<"5", " ", "s", "a", "r">>)
    /\ report.parse_cost = Num(5)
    /\ report.safe_float = Num(0)

-----------------------------------------------------------------------------
(* Properties of the status and amount normalization *)

StatusLabels == {Done, InProgress, NotDone}

(* str(status).strip().lower() of the raw status, '' when the record has none *)
TrimmedStatus(r) ==
    IF "status" \in DOMAIN r THEN Lower(Strip(PyStr(r["status"]))) ELSE <<>>

(* the words the specification lists for each label *)
ListedAsDone ==
    { <<"d", "o", "n", "e">>, <<"c", "o", "m", "p", "l", "e", "t", "e", "d">>,
      <<"c", "o", "m", "p", "l", "e", "t", "e">> }

ListedAsInProgress ==
    { <<"i", "n", " ", "p", "r", "o", "g", "r", "e", "s", "s">>,
      <<"i", "n", "p", "r", "o", "g", "r", "e", "s", "s">>,
      <<"p", "e", "n", "d", "i", "n", "g">>,
      <<"u", "n", "d", "e", "r", " ", "p", "r", "o", "c", "e", "s", "s">>,
      <<"w", "a", "i", "t", "i", "n", "g", " ", "f", "o", "r", " ",
        "q", "u", "o", "t", "a", "t", "i", "o", "n">> }

ListedLabel(status) ==
    CASE status \in ListedAsDone       -> Done
      [] status \in ListedAsInProgress -> InProgress
      [] status = <<>>                 -> InProgress
      [] OTHER                         -> NotDone

(* C18: calculate_sla_metrics sets every record's status from its trimmed, *)
(* lower-cased raw status: the listed words for done give 'Done', those    *)
(* for in progress give 'In Progress', an absent, empty or blank status    *)
(* gives 'In Progress', any other status 'Not Done'; afterwards every      *)
(* status is one of the three labels.                                      *)
SlaStatusNormalized ==
    SlaMetricsRan =>
        /\ Len(records) = Len(input)
        /\ \A i \in DOMAIN records :
              /\ records[i]["status"] = ListedLabel(TrimmedStatus(input[i]))
              /\ records[i]["status"] \in StatusLabels

SlaStatusNormalizedReached ==
    /\ SlaMetricsRan
    /\ Len(input) = 2
    /\ Get(input[1], "status") = UnderProcess
    /\ Get(input[2], "status") = OnHold
    /\ records[1]["status"] = InProgress
    /\ records[2]["status"] = NotDone
    /\ report.metrics.status.NotDone = 1

TransportationRan == prog = "sheet" /\ pc = "transported"

(* C19: after prepare_transportation_data the status of every output       *)
(* record and every entry of filters.status is 'Done', 'In Progress' or    *)
(* 'Not Done', whatever the raw status was.                                *)
TransportStatusClosed ==
    TransportationRan =>
        /\ \A i \in DOMAIN report.transportation.records :
              report.transportation.records[i].status \in StatusLabels
        /\ \A i \in DOMAIN report.transportation.filters.status :
              report.transportation.filters.status[i] \in StatusLabels

(* 'under process' is in no word list of sync_logistics.py and stays as it is *)
RawStatusKept ==
    /\ TransportationRan
    /\ Len(calc.processed) = 1
    /\ Get(calc.processed[1], "status") = UnderProcess
    /\ report.transportation.records[1].status = UnderProcess
    /\ report.transportation.filters.status = <<UnderProcess>>

(* what does hold: a status of the three word lists, or none, gets a label *)
ListedStatusLabelled ==
    TransportationRan =>
        \A i \in DOMAIN calc.processed :
            TrimmedStatus(calc.processed[i])
                \in DoneSynonyms \cup LogisticsInProgress \cup LogisticsNotDone \cup {<<>>}
            => report.transportation.records[i].status \in StatusLabels

ListedStatusLabelledReached ==
    /\ TransportationRan
    /\ Len(calc.processed) = 2
    /\ Get(calc.processed[1], "status") = Completed
    /\ Get(calc.processed[2], "status") = Cancelled
    /\ report.transportation.records[1].status = Done
    /\ report.transportation.records[2].status = NotDone
    /\ report.transportation.filters.status = <<Done, NotDone>>

SlotSum(r) == DecSum(Map(PriceFields, LAMBDA f : safe_float(Get(r, f))))

(* the normalized explicit total of a record that has the field, else the *)
(* sum of its normalized price slots                                      *)
SpecifiedTotal(r) ==
    IF "total_amount" \in DOMAIN r THEN safe_float(r["total_amount"]) ELSE SlotSum(r)

(* C20: after calculate_sla_metrics or prepare_transportation_data every   *)
(* record's total_amount is a number: the normalized explicit total when   *)
(* the record has an explicit total field, otherwise the sum of the        *)
(* normalized price slots price_1 .. price_5; the sum of the slots is used *)
(* only for a record without explicit total field.                         *)
TotalAmountNormalized ==
    /\ SlaMetricsRan =>
          \A i \in DOMAIN records :
              /\ records[i]["total_amount"].t = "num"
              /\ records[i]["total_amount"] = SpecifiedTotal(input[i])
    /\ TransportationRan =>
          \A i \in DOMAIN records :
              /\ report.transportation.records[i].total_amount.t = "num"
              /\ report.transportation.records[i].total_amount
                    = SpecifiedTotal(calc.processed[i])

(* an explicit total that is the empty string: the price slots are summed *)
EmptyTotalSummed ==
    /\ TransportationRan
    /\ calc.processed = <<[job_order_no |-> JobNo, total_amount |-> S(<<>>),
                           price_1 |-> Num(5)]>>
    /\ SpecifiedTotal(calc.processed[1]) = Num(0)
    /\ report.transportation.records[1].total_amount = Num(5)

(* what does hold: an explicit total that is truthy is normalized and kept, *)
(* any other record gets the sum of its price slots                         *)
TruthyTotalKept ==
    /\ SlaMetricsRan =>
          \A i \in DOMAIN records :
              records[i]["total_amount"] =
                  (IF Truthy(Get(input[i], "total_amount"))
                   THEN safe_float(Get(input[i], "total_amount")) ELSE SlotSum(input[i]))
    /\ TransportationRan =>
          \A i \in DOMAIN records :
              report.transportation.records[i].total_amount =
                  (IF Truthy(Get(calc.processed[i], "total_amount"))
                   THEN safe_float(Get(calc.processed[i], "total_amount"))
                   ELSE SlotSum(calc.processed[i]))

TruthyTotalKeptReached ==
    /\ TransportationRan
    /\ Len(calc.processed) = 1
    /\ Get(calc.processed[1], "total_amount") = ThousandSar
    /\ Get(calc.processed[1], "price_1") = Num(5)
    /\ report.transportation.records[1].total_amount = Num(1000)

-----------------------------------------------------------------------------
(* Properties of the scripts from the sheet on *)

(* an aggregation of the script was called on the records of process_sheet *)
AggregationCalled == prog = "sheet" /\ report /= NoResult

(* C21: no cell value, whatever its type (strings, numbers, booleans, and  *)
(* mixed types within one column), aborts the processing: after            *)
(* process_sheet, calculate_sla_kpis, calculate_payments_kpis,             *)
(* calculate_sla_metrics, prepare_transportation_data and                  *)
(* prepare_payments_data return without raising.                           *)
CellsNeverAbort ==
    AggregationCalled => \A f \in DOMAIN report : Returned(report[f])

(* a Status column with the number 5 in one row and 'Done' in the next: *)
(* sorted(set(...)) of the statuses compares an int with a str          *)
MixedStatusAborted ==
    /\ prog = "sheet"
    /\ scen = "sync_logistics"
    /\ pc = "failed"
    /\ input.columns = TransportLayout
    /\ input.rows = << <<JobCell, Cell(3, Num(5), None)>>,
                       <<JobCell, Cell(3, None, S(<<"D", "o", "n", "e">>))>> >>
    /\ Get(records[1], "status") = Num(5)
    /\ Get(records[2], "status") = Done
    /\ report.transportation = Raise(TypeError)
    /\ outcome = [value |-> Bool(FALSE)]

(* what does hold: the only exceptions are the TypeError of sorted on a   *)
(* column of mixed types and the OverflowError of float on an int beyond  *)
(* the doubles; the two KPI computations raise only the latter            *)
AbortsOfSortAndFloat ==
    AggregationCalled =>
        \A f \in DOMAIN report :
            ~Returned(report[f]) =>
                /\ report[f].raised \in {TypeError.e, OverflowError.e}
                /\ report[f].raised = TypeError.e => f \in {"transportation", "payments"}
                /\ report[f].raised = TypeError.e => scen = "sync_logistics"

(* the sheet was not obtained: the token is missing where it is checked, or *)
(* get_sheet_data raised                                                    *)
SnapshotUnobtained == pc \in {"no_token", "fetch_failed"}

(* what the caller gets from a run that failed: an exception or the exit  *)
(* status 1 of sync_smartsheet.py, one error status of do_GET, False from *)
(* the other scripts                                                      *)
FailureReported ==
    CASE scen = "sync_smartsheet" -> ~Returned(outcome) \/ outcome = [value |-> Num(1)]
      [] scen = "api"             -> Len(sent) = 1 /\ sent[1] >= 400
      [] OTHER                    -> outcome = [value |-> Bool(FALSE)]

(* C22: when the sheet snapshot cannot be obtained (get_sheet_data raises, *)
(* or the token is not configured where it is checked), no report is       *)
(* produced, no entry point writes an output file, do_GET sends no 200,    *)
(* and the run reports the failure: a non-zero or False result, an         *)
(* exception, or an error response.                                        *)
FetchFailureSurfaces ==
    SnapshotUnobtained =>
        /\ files = NoDict
        /\ report = NoResult
        /\ calc = NoResult
        /\ \A i \in DOMAIN sent : sent[i] /= 200
        /\ FailureReported

(* do_GET answers the 404 of the Smartsheet API with a 404 *)
FetchFailureSurfaced ==
    /\ prog = "sheet"
    /\ scen = "api"
    /\ pc = "fetch_failed"
    /\ sent = <<404>>
    /\ files = NoDict
    /\ report = NoResult

LogisticsRan == prog = "sheet" /\ scen = "sync_logistics" /\ outcome /= NoResult

BothArtifacts ==
    ("transportation_full_data.json" :> "complete") @@ ("payments_full_data.json" :> "complete")

(* C23: a run of main of sync_logistics.py is all-or-nothing: it returns    *)
(* True with transportation_full_data.json and payments_full_data.json     *)
(* both written, or it fails with neither written; it never returns False  *)
(* after having written one of the two files.                              *)
LogisticsAllOrNothing ==
    LogisticsRan =>
        \/ outcome = [value |-> Bool(TRUE)] /\ files = BothArtifacts
        \/ outcome = [value |-> Bool(FALSE)] /\ files = NoDict

(* the projects 7 and 'P' of two records with an amount: the transportation *)
(* file is written, sorted() of the projects raises in                      *)
(* prepare_payments_data, and main returns False                            *)
TransportationAloneWritten ==
    /\ LogisticsRan
    /\ pc = "failed"
    /\ input.columns = TransportLayout
    /\ input.rows = << <<Cell(2, Num(7), None), Cell(5, Num(5), None)>>,
                       <<JobCell, Cell(2, S(<<"P">>), None), Cell(5, Num(5), None)>> >>
    /\ Returned(report.transportation)
    /\ report.payments = Raise(TypeError)
    /\ files = ("transportation_full_data.json" :> "complete")
    /\ outcome = [value |-> Bool(FALSE)]

(* what does hold: True is returned only with both files written, and a run *)
(* that failed has never written the payments file whole                    *)
TrueAfterBothArtifacts ==
    LogisticsRan =>
        /\ outcome = [value |-> Bool(TRUE)] <=> files = BothArtifacts
        /\ outcome \in {[value |-> Bool(TRUE)], [value |-> Bool(FALSE)]}
        /\ "payments_full_data.json" \in DOMAIN files =>
              files["transportation_full_data.json"] = "complete"

(* C24: every stage is a pure function of its input: process_sheet leaves  *)
(* the sheet as it was, and calculate_sla_kpis, calculate_payments_kpis,   *)
(* calculate_sla_metrics, prepare_transportation_data and                  *)
(* prepare_payments_data change, add and remove no field of the records of *)
(* the list they are given.                                                *)
StagesPure ==
    [][ /\ ProcessSheet => input' = input
        /\ (CalculateKpis \/ RunSlaKpis \/ RunPaymentsKpis) => records' = records
        /\ (CalculateSlaMetrics \/ RunSlaMetrics) => records' = records
        /\ PrepareTransportation => records' = records
        /\ PreparePayments => records' = records ]_vars

(* calculate_sla_metrics has put the label 'Done' where ' Completed ' was *)
RecordsRewritten ==
    /\ prog = "sheet"
    /\ scen = "sync_sla"
    /\ pc = "calculated"
    /\ calc.processed = <<[ job_order_no |-> JobNo, status |-> Completed,
                            total_amount |-> Dec(125, 1) ]>>
    /\ records = <<[ job_order_no |-> JobNo, status |-> Done,
                     total_amount |-> Dec(125, 1) ]>>

(* what does hold: process_sheet leaves the sheet as it was, the two KPI    *)
(* computations leave the records as they were, and the other three change *)
(* no field but status, total_amount and payment_status                    *)
OtherFieldsKept(before, after) ==
    /\ Len(after) = Len(before)
    /\ \A i \in DOMAIN before :
          /\ DOMAIN before[i] \subseteq DOMAIN after[i]
          /\ \A f \in DOMAIN after[i] \ {"status", "total_amount", "payment_status"} :
                f \in DOMAIN before[i] /\ after[i][f] = before[i][f]

KpiStagesPure ==
    [][ /\ ProcessSheet => input' = input
        /\ (CalculateKpis \/ RunSlaKpis \/ RunPaymentsKpis) => records' = records
        /\ (CalculateSlaMetrics \/ RunSlaMetrics \/ PrepareTransportation \/ PreparePayments)
              => OtherFieldsKept(records, records') ]_vars

PaymentsPrepared ==
    /\ prog = "sheet"
    /\ scen = "sync_logistics"
    /\ "payments" \in DOMAIN report
    /\ Returned(report.payments)

(* the positions, in record order, of the records whose total is positive *)
WithPositive(rs, Total(_)) ==
    SelectSeq([i \in DOMAIN rs |-> i], LAMBDA i : DecLt(Num(0), Total(rs[i])))

(* the payments report holds the records of those positions, in that order *)
PaymentsHolds(rs, kept, Total(_)) ==
    /\ Len(report.payments.records) = Len(kept)
    /\ report.payments.metadata.total_records = Len(kept)
    /\ \A k \in DOMAIN kept :
          /\ report.payments.records[k].total_amount = Total(rs[kept[k]])
          /\ report.payments.records[k].job_order_no
                = GetOr(rs[kept[k]], "job_order_no", Str(<<>>))
          /\ report.payments.records[k].project = GetOr(rs[kept[k]], "project", Unknown)

(* C25: main of sync_logistics.py runs prepare_transportation_data on the   *)
(* record list before prepare_payments_data runs on the same list, so the  *)
(* payments report holds exactly the records whose composite total (the    *)
(* normalized explicit total, or the sum of the five price slots of a      *)
(* record without explicit total) is greater than 0, in record order; a    *)
(* record with no explicit total and a positive price slot is among them.  *)
PaymentsOfCompositeTotals ==
    PaymentsPrepared =>
        /\ Returned(report.transportation)
        /\ PaymentsHolds(calc.processed,
                         WithPositive(calc.processed, SpecifiedTotal), SpecifiedTotal)

(* a record whose Total Amount is the empty string and whose price1 is 5: *)
(* its composite total is 0, and it is in the payments report with 5     *)
EmptyTotalPaid ==
    /\ PaymentsPrepared
    /\ calc.processed = <<[job_order_no |-> JobNo, total_amount |-> S(<<>>),
                           price_1 |-> Num(5)]>>
    /\ WithPositive(calc.processed, SpecifiedTotal) = <<>>
    /\ Len(report.payments.records) = 1
    /\ report.payments.records[1].total_amount = Num(5)

(* the total the amount loop stores: the normalized explicit total that is *)
(* truthy, else the sum of the price slots                                 *)
StoredTotal(r) ==
    IF Truthy(Get(r, "total_amount")) THEN safe_float(Get(r, "total_amount"))
    ELSE SlotSum(r)

(* what does hold: the transportation report comes first, and the payments *)
(* report holds, in record order, exactly the records whose stored total   *)
(* is positive; a record without total and with a positive slot is one     *)
PaymentsOfStoredTotals ==
    PaymentsPrepared =>
        /\ Returned(report.transportation)
        /\ files["transportation_full_data.json"] = "complete"
        /\ PaymentsHolds(calc.processed,
                         WithPositive(calc.processed, StoredTotal), StoredTotal)
        /\ \A i \in DOMAIN calc.processed :
              ("total_amount" \notin DOMAIN calc.processed[i]
                  /\ DecLt(Num(0), SlotSum(calc.processed[i])))
              => \E k \in DOMAIN report.payments.records :
                    WithPositive(calc.processed, StoredTotal)[k] = i

(* calculate_sla_metrics has returned its report of the record list *)
MetricsReported ==
    \/ SlaMetricsRan
    \/ prog = "sheet" /\ scen = "sync_sla" /\ "metrics" \in DOMAIN report
                      /\ Returned(report.metrics)

(* C26: calculate_sla_metrics is idempotent on a record list: applied to   *)
(* the list it has already been applied to, it returns the report of the   *)
(* first application (last_update aside), also for a record whose explicit *)
(* total normalizes to 0 while its price slots are positive.               *)
MetricsIdempotent ==
    MetricsReported => calculate_sla_metrics(records) = report.metrics

(* a total of '0' and a price of 5: the first application stores 0.0 and *)
(* reports the amount 0, the second sums the slots and reports 5         *)
SecondApplicationDiffers ==
    /\ prog = "sheet"
    /\ scen = "sync_sla"
    /\ pc = "calculated"
    /\ calc.processed = <<[job_order_no |-> JobNo, total_amount |-> S(<<"0">>),
                           price_1 |-> Num(5)]>>
    /\ records[1].total_amount = Num(0)
    /\ report.metrics.summary.total_amount = Num(0)
    /\ calculate_sla_metrics(records).summary.total_amount = Num(5)

(* what does hold: the second application reports what the first did when *)
(* no stored total is 0 beside a positive price slot                      *)
ZeroedTotal(r) == r["total_amount"] = Num(0) /\ SlotSum(r) /= Num(0)

MetricsIdempotentOnTotals ==
    (MetricsReported /\ \A i \in DOMAIN records : ~ZeroedTotal(records[i]))
        => calculate_sla_metrics(records) = report.metrics

(* C27: in the payments report of main of sync_logistics.py every record's *)
(* payment_status is 'Paid' or 'Pending', and its invoice_received is      *)
(* 'Yes' exactly when its payment_status is 'Paid'.                        *)
PaidIffInvoiced ==
    PaymentsPrepared =>
        \A k \in DOMAIN report.payments.records :
            /\ report.payments.records[k].payment_status \in {Paid, Pending}
            /\ report.payments.records[k].invoice_received \in {Yes, No}
            /\ report.payments.records[k].invoice_received = Yes
                  <=> report.payments.records[k].payment_status = Paid

(* ' Completed ' with 12.5 is paid and invoiced, a record without status *)
(* is pending and not invoiced                                           *)
PaidAndPendingReported ==
    /\ PaymentsPrepared
    /\ Len(report.payments.records) = 2
    /\ Get(calc.processed[1], "status") = Completed
    /\ report.payments.records[1].payment_status = Paid
    /\ report.payments.records[1].invoice_received = Yes
    /\ "status" \notin DOMAIN calc.processed[2]
    /\ report.payments.records[2].payment_status = Pending
    /\ report.payments.records[2].invoice_received = No

(* calculate_sla_kpis ran on a list of at most 20 distinct project keys *)
ProjectsUncapped == SlaKpisRan /\ Len(calc.sla.projects) <= ProjectCap

(* sum(d.values()) of a distribution *)
ValuesSum(d) == DecSum(Map(d, LAMBDA e : e.v))

(* C28: in calculate_sla_kpis, when the record list has at most 20         *)
(* distinct project keys ('Unknown' counted), the values of the project    *)
(* by-amount distribution (top_projects, projects_amounts) sum to the      *)
(* unrounded total_amount: every record's normalized cost is attributed to *)
(* exactly one project key.                                                *)
ProjectAmountsSumToTotal ==
    ProjectsUncapped =>
        /\ ValuesSum(report.sla.top_projects) = calc.sla.total_amount
        /\ ValuesSum(report.sla.projects_amounts) = calc.sla.total_amount

(* 5.7 and 5.047 without project and 1.998 of the project B: the total is *)
(* 12.745000000000001, the amounts 10.747 and 1.998 add up to 12.745      *)
ProjectAmountsOff ==
    /\ ProjectsUncapped
    /\ input = <<FloatOrder(Amount1), FloatProjectOrder(Amount2), FloatOrder(Amount3)>>
    /\ report.sla.top_projects = << [k |-> Unknown, v |-> Dec(10747, 3)],
                                    [k |-> S(<<"B">>), v |-> Amount2] >>
    /\ ValuesSum(report.sla.top_projects) = Dec(12745, 3)
    /\ calc.sla.total_amount /= Dec(12745, 3)
    /\ report.sla.summary.total_amount = Dec(1275, 2)

(* the orders of a project key, in list order *)
OrdersOfProject(key) == SelectSeq(input, LAMBDA o : GetOr(o, "project", Unknown) = key)

(* what does hold: every order's project key is a key of the distribution, *)
(* no key is there twice, and the amount of a key is the float sum of the  *)
(* normalized costs of its orders, taken in list order                     *)
ProjectAmountsPartition ==
    ProjectsUncapped =>
        /\ \A i \in DOMAIN input :
              \E k \in DOMAIN report.sla.top_projects :
                  report.sla.top_projects[k].k = GetOr(input[i], "project", Unknown)
        /\ \A k, l \in DOMAIN report.sla.top_projects :
              report.sla.top_projects[k].k = report.sla.top_projects[l].k => k = l
        /\ \A k \in DOMAIN report.sla.top_projects :
              report.sla.top_projects[k].v
                  = DecSum(Map(OrdersOfProject(report.sla.top_projects[k].k),
                               LAMBDA o : parse_cost(Get(o, "cost"))))

(* do_GET has answered the request *)
Answered == prog = "sheet" /\ scen = "api" /\ outcome /= NoResult

(* the status do_GET sends for an exception of the fetch *)
StatusOf(err) == IF err.e = "HTTPError" THEN err.code ELSE 500

KpisSucceeded ==
    /\ ProcessSheetRan
    /\ DOMAIN report = {"sla", "payments"}
    /\ Returned(report.sla)
    /\ Returned(report.payments)

(* C29: on every path of do_GET exactly one response status is sent per   *)
(* request: 500 and no fetch when the token is not configured, the        *)
(* upstream status code when the fetch raises HTTPError, 500 on any other *)
(* failure, and 200 only after the fetch, the record building and both    *)
(* KPI computations have succeeded; no path sends a second status after   *)
(* the 200 headers.                                                       *)
OneStatusPerRequest ==
    Answered =>
        /\ Len(sent) = 1
        /\ pc = "no_token" => sent = <<500>> /\ calc = NoResult
        /\ pc = "fetch_failed" => \E err \in FetchErrors : sent = <<StatusOf(err)>>
        /\ pc = "failed" => sent = <<500>>
        /\ pc = "done" => sent = <<200>>
        /\ sent[1] = 200 => KpisSucceeded

(* a job order number with a lone surrogate, as json.loads gives for       *)
(* "\ud800": the body does not encode after the 200 headers, and the       *)
(* except clause sends 500                                                 *)
SecondStatusSent ==
    /\ Answered
    /\ pc = "failed"
    /\ input.columns = JobOrdersLayout
    /\ input.rows = << <<Cell(1, S(<<"J", "O", LoneSurrogate>>), None),
                         Cell(5, Num(5), None)>> >>
    /\ KpisSucceeded
    /\ sent = <<200, 500>>

(* what does hold: the first status is as specified, 200 comes only after *)
(* both KPI computations, and a second status is the 500 that follows a   *)
(* 200 whose body did not encode                                          *)
FirstStatusAsSpecified ==
    Answered =>
        /\ Len(sent) \in {1, 2}
        /\ pc = "no_token" => sent = <<500>> /\ calc = NoResult
        /\ pc = "fetch_failed" => \E err \in FetchErrors : sent = <<StatusOf(err)>>
        /\ pc = "done" => sent = <<200>>
        /\ pc = "failed" => sent \in {<<500>>, <<200, 500>>}
        /\ sent[1] = 200 => KpisSucceeded
        /\ Len(sent) = 2 <=> (sent[1] = 200 /\ ~Encodes(KpisTexts(report, records)))

=============================================================================
